---- MODULE Spec2Model ----
(***************************************************************************)
(* Streaming microstructure analytics and anomaly detection:               *)
(*   core/analytics.py          MicrostructureAnalyzer                     *)
(*   core/anomaly_detection.py  AnomalyDetector                            *)
(*                                                                         *)
(* Numbers.  The program computes in float64.  Here prices and volumes are *)
(* small integers (exact in float64), state that the program accumulates   *)
(* (OFI history, mid-prices, EWMA statistics, VPIN imbalances) is kept as  *)
(* exact rationals [n, d] in lowest terms, and every threshold test of the *)
(* detectors is an exact rational comparison.  round(x, k) is modelled as  *)
(* round-half-even to an integer number of 10^-k units.                    *)
(* The analyzer is free of scale in the volumes except for the two guards  *)
(* "total < 1e-9" of _calculate_obi and _calculate_microprice: the volumes *)
(* of the analyzer's books count units of 10^-10, so the guards read       *)
(* "total < 10".  The detector's books count whole units.                  *)
(* Optional values: None is <<>>, a present value v is <<v>>.              *)
(***************************************************************************)
EXTENDS Integers, Sequences, FiniteSets, TLC

VARIABLES
    analyzer,        \* the MicrostructureAnalyzer instance (its fields)
    fresh,           \* a MicrostructureAnalyzer constructed at the last reset, fed the same calls
    ret,             \* the last call on the analyzer: operation, argument, result
    fresh_ret,       \* the result of the same call on the fresh analyzer
    dirty_reset,     \* a reset() has hit an analyzer that had processed calls
    trades,          \* the number of trades given to update_vpin on a warm analyzer
    detector,        \* the AnomalyDetector instance (its fields)
    det_fresh,       \* an AnomalyDetector constructed at the last reset, fed the same calls
    det_ret,         \* the last call on the detector
    det_fresh_ret,   \* the result of the same call on the fresh detector
    det_dirty_reset, \* a reset() has hit a detector that had processed calls
    validation,      \* the last call of DataValidator.validate_snapshot
    _analyzer,       \* the global analyzer of tools/microstructure_tools.py, or None
    scoped,          \* by symbol: an analyzer fed that symbol's snapshots alone
    tool_ret,        \* the last call of an MCP tool
    scoped_ret,      \* the result of the same snapshot on the symbol's own analyzer
    tool_calls       \* the number of tool calls made

avars == <<analyzer, fresh, ret, fresh_ret, dirty_reset, trades>>
dvars == <<detector, det_fresh, det_ret, det_fresh_ret, det_dirty_reset>>
vvars == <<validation>>
tvars == <<_analyzer, scoped, tool_ret, scoped_ret, tool_calls>>
vars == <<avars, dvars, vvars, tvars>>

----------------------------------------------------------------------------
(* Arithmetic helpers *)

None == <<>>
Some(v) == <<v>>

Abs(x) == IF x < 0 THEN -x ELSE x

RECURSIVE GCD(_, _)
GCD(a, b) == IF b = 0 THEN a ELSE GCD(b, a % b)

\* the rational n/d in lowest terms with a positive denominator
Rat(n, d) ==
    LET s == IF d < 0 THEN -1 ELSE 1
        g == GCD(Abs(n), Abs(d))
    IN  [n |-> (s * n) \div g, d |-> (s * d) \div g]

RInt(k) == [n |-> k, d |-> 1]
\* sums and comparisons go through the least common denominator
RAdd(x, y) ==
    LET g == GCD(x.d, y.d)
    IN  Rat(x.n * (y.d \div g) + y.n * (x.d \div g), (x.d \div g) * y.d)
RNeg(x) == [n |-> -x.n, d |-> x.d]
RSub(x, y) == RAdd(x, RNeg(y))
RMul(x, y) ==
    LET a == Rat(x.n, y.d)
        b == Rat(y.n, x.d)
    IN  [n |-> a.n * b.n, d |-> a.d * b.d]
RDiv(x, y) == RMul(x, Rat(y.d, y.n))
RLt(x, y) ==
    LET g == GCD(x.d, y.d)
    IN  x.n * (y.d \div g) < y.n * (x.d \div g)
RLe(x, y) == ~RLt(y, x)
RMin(x, y) == IF RLt(y, x) THEN y ELSE x
RMax(x, y) == IF RLt(x, y) THEN y ELSE x

RECURSIVE Pow10(_)
Pow10(k) == IF k = 0 THEN 1 ELSE 10 * Pow10(k - 1)

\* Python round(x, ndigits) of the rational x, as an integer count of
\* 10^-ndigits units: nearest, ties to even.  The digits come by long
\* division: <<floor(x * 10^k), remainder>>.
RECURSIVE RoundDigits(_, _, _, _)
RoundDigits(q, r, d, k) ==
    IF k = 0 THEN <<q, r>>
    ELSE RoundDigits(10 * q + (10 * r) \div d, (10 * r) % d, d, k - 1)
HalfEven(qr, d) ==
    IF 2 * qr[2] < d THEN qr[1]
    ELSE IF 2 * qr[2] > d THEN qr[1] + 1
    ELSE IF qr[1] % 2 = 0 THEN qr[1] ELSE qr[1] + 1
round(x, ndigits) ==
    HalfEven(RoundDigits(x.n \div x.d, x.n % x.d, x.d, ndigits), x.d)

\* deque(maxlen).append(x)
\* a plausible slip: a full buffer gives up its newest value, not its oldest
DequeAppend_evicts_newest(q, x, maxlen) ==
    IF maxlen = 0 THEN <<>>
    ELSE IF Len(q) >= maxlen THEN Append(SubSeq(q, 1, Len(q) - 1), x)
    ELSE Append(q, x)

DequeAppend(q, x, maxlen) ==
    IF maxlen = 0 THEN <<>>
    ELSE IF Len(q) >= maxlen THEN Append(Tail(q), x)
    ELSE Append(q, x)

RECURSIVE SeqMax(_)
SeqMax(s) == IF Len(s) = 1 THEN s[1]
             ELSE LET m == SeqMax(Tail(s)) IN IF s[1] > m THEN s[1] ELSE m

----------------------------------------------------------------------------
(* Configuration of the analyzer instance (constructor arguments) *)

ofi_window == 2
price_history_size == 2
vpin_bucket_size == 2

\* maxlen of _bucket_imbalances, and the number of buckets VPIN needs
BucketImbalancesMaxlen == 50
VpinMinBuckets == 10
\* window of _calculate_volatility
VolatilityWindow == 20
\* levels of _calculate_obi
ObiLevels == 5
\* decay_factor = 0.5: the weight exp(-0.5 * i) of the level of index i,
\* i = 0..4, in thousandths
ObiWeights == <<1000, 607, 368, 223, 135>>
\* the 1e-9 of the two "total < 1e-9" guards, in units of 10^-10
DustVolume == 10

\* at most this many completed buckets are explored
MaxBuckets == 1
\* at most this many tool calls are explored
MaxToolCalls == 4
\* at most this many trades are given to a warm analyzer
MaxTrades == 3

----------------------------------------------------------------------------
(* Inputs *)

Level(p, v) == [price |-> p, volume |-> v]
OrderBook(b, a) == [bids |-> b, asks |-> a]

\* valid one-level books (best bid < best ask, volumes >= 0): the best bid
\* moves between two prices with a small, a large and a zero volume, and so
\* does the best ask
ValidBooks ==
    { OrderBook(<<Level(10, 1)>>,     <<Level(12, 1)>>),
      OrderBook(<<Level(11, 1)>>,     <<Level(12, 1)>>),
      OrderBook(<<Level(10, 30000)>>, <<Level(12, 1)>>),
      OrderBook(<<Level(11, 0)>>,     <<Level(12, 1)>>),
      OrderBook(<<Level(10, 1)>>,     <<Level(13, 30000)>>),
      OrderBook(<<Level(11, 30000)>>, <<Level(13, 1)>>) }

\* books with an empty side
EmptySideBooks ==
    { OrderBook(<<>>, <<Level(12, 1)>>),
      OrderBook(<<Level(10, 1)>>, <<>>) }

TradeVolumes == {1}

\* a side of a book: volumes by depth, prices one tick apart
\* starting at the best price
Side(best, step, volumes) ==
    [i \in 1..Len(volumes) |-> Level(best + step * (i - 1), volumes[i])]
Repeat(v, k) == [i \in 1..k |-> v]

\* an analyzer book of several levels: best bid 100, best ask 102
MetricBook(bid_volumes, ask_volumes) ==
    OrderBook(Side(100, -1, bid_volumes), Side(102, 1, ask_volumes))

\* valid books of one to six levels a side: either side heavier at the top,
\* deeper in the book, or past the fifth level; sides of different depth;
\* nearly balanced large volumes; volumes below the 1e-9 guards; a side of
\* volume zero
MetricBooks ==
    { MetricBook(<<20>>, <<10>>),
      MetricBook(<<10>>, <<20>>),
      MetricBook(<<10>>, <<10>>),
      MetricBook(<<2>>, <<1>>),
      MetricBook(<<3>>, <<6>>),
      MetricBook(<<0>>, <<20>>),
      MetricBook(<<30000>>, <<29999>>),
      MetricBook(<<29999>>, <<30000>>),
      MetricBook(<<20, 10>>, <<10, 10>>),
      MetricBook(<<1, 20>>, <<10, 10>>),
      MetricBook(<<10, 10>>, <<1, 20>>),
      MetricBook(<<10>>, <<8, 8, 8>>),
      MetricBook(<<8, 8, 8>>, <<10>>),
      MetricBook(<<5, 5, 5, 5, 5, 20>>, <<6, 6, 6, 6, 6>>),
      MetricBook(<<6, 5, 5, 5, 5>>, <<5, 5, 5, 5, 5, 20>>) }

\* a valid detector book: best bid 1000, best ask one or two ticks above
DetBook(bid_volumes, ask_volumes, ticks) ==
    OrderBook(Side(1000, -1, bid_volumes), Side(1000 + ticks, 1, ask_volumes))

\* quiet, thin, deep, layered, lopsided and outsized books around the
\* initial average level-1 volume of 100
DetBooks ==
    { DetBook(<<100>>, <<100>>, 1),
      DetBook(<<100>>, <<100>>, 2),
      DetBook(<<10>>, <<10>>, 1),
      DetBook(<<10>>, <<10>>, 2),
      DetBook(Repeat(10, 6), <<10>>, 1),
      DetBook(<<100>>, Repeat(10, 6), 1),
      DetBook(<<100, 800>>, <<100>>, 1),
      DetBook(<<100>>, <<100, 800>>, 1),
      DetBook(<<100, 800>>, <<800>>, 1),
      DetBook(<<600>>, <<600>>, 1),
      DetBook(Repeat(100, 5) \o <<800>>, <<100>>, 1),
      DetBook(Repeat(100, 10) \o <<10>>, <<100>>, 1),
      DetBook(<<300, 300, 300, 100, 100>>, Repeat(100, 5), 1),
      DetBook(<<300, 300, 300, 300, 100>>, Repeat(100, 5), 1),
      DetBook(Repeat(100, 5), <<300, 300, 300, 100, 100>>, 1),
      DetBook(Repeat(300, 5), <<300, 300, 300, 100, 100>>, 1),
      DetBook(<<1000>>, <<10>>, 1),
      DetBook(<<50>>, <<400>>, 1),
      DetBook(<<60>>, <<340>>, 1),
      DetBook(<<0>>, <<0>>, 1) }

DetEmptySideBooks ==
    { OrderBook(<<>>, Side(1001, 1, <<100>>)),
      OrderBook(Side(1000, -1, <<100>>), <<>>),
      OrderBook(<<>>, <<>>) }

\* at most this many snapshots are analysed between two resets of the detector
MaxDetCalls == 2

----------------------------------------------------------------------------
(* OrderBook properties, core/analytics.py *)

best_bid(book) == IF book.bids # <<>> THEN Some(book.bids[1]) ELSE None
best_ask(book) == IF book.asks # <<>> THEN Some(book.asks[1]) ELSE None

\* a level is truthy (a dataclass instance), so the guards test presence only
mid_price(book) ==
    IF best_bid(book) # None /\ best_ask(book) # None
    THEN Some(Rat(book.bids[1].price + book.asks[1].price, 2))
    ELSE None

spread(book) ==
    IF best_bid(book) # None /\ best_ask(book) # None
    THEN Some(book.asks[1].price - book.bids[1].price)
    ELSE None

----------------------------------------------------------------------------
(* MicrostructureAnalyzer *)

\* MicrostructureAnalyzer.__init__
MicrostructureAnalyzer_init ==
    [ _prev_best_bid |-> None,
      _prev_best_ask |-> None,
      _prev_bid_qty |-> 0,
      _prev_ask_qty |-> 0,
      _ofi_history |-> <<>>,
      _price_history |-> <<>>,
      price_history_size |-> price_history_size,
      vpin_bucket_size |-> vpin_bucket_size,
      _current_bucket_volume |-> 0,
      _current_bucket_buys |-> 0,
      _current_bucket_sells |-> 0,
      _bucket_imbalances |-> <<>> ]

\* a plausible slip: no "is not None" guard, a missing previous quote reads
\* as price 0 and quantity 0
RawOfi_unguarded(self, bid, ask) ==
    LET pb == IF self._prev_best_bid = None THEN 0 ELSE self._prev_best_bid[1]
        pa == IF self._prev_best_ask = None THEN 0 ELSE self._prev_best_ask[1]
        bid_part == IF bid.price > pb THEN bid.volume
                    ELSE IF bid.price < pb THEN -self._prev_bid_qty
                    ELSE bid.volume - self._prev_bid_qty
        ask_part == IF ask.price > pa THEN self._prev_ask_qty
                    ELSE IF ask.price < pa THEN -ask.volume
                    ELSE -(ask.volume - self._prev_ask_qty)
    IN  bid_part + ask_part

\* a plausible slip: a raised bid adds the previous quantity, not the new one
RawOfi_bid_up_adds_prev(self, bid, ask) ==
    IF self._prev_best_bid = None THEN 0
    ELSE LET pb == self._prev_best_bid[1]
             pa == self._prev_best_ask[1]
             bid_part == IF bid.price > pb THEN self._prev_bid_qty
                         ELSE IF bid.price < pb THEN -self._prev_bid_qty
                         ELSE bid.volume - self._prev_bid_qty
             ask_part == IF ask.price > pa THEN self._prev_ask_qty
                         ELSE IF ask.price < pa THEN -ask.volume
                         ELSE -(ask.volume - self._prev_ask_qty)
         IN  bid_part + ask_part

\* _calculate_ofi, first half: the raw order flow imbalance of a
\* top-of-book against the previous one
RawOfi(self, bid, ask) ==
    IF self._prev_best_bid = None THEN 0
    ELSE LET pb == self._prev_best_bid[1]
             pa == self._prev_best_ask[1]
             bid_part == IF bid.price > pb THEN bid.volume
                         ELSE IF bid.price < pb THEN -self._prev_bid_qty
                         ELSE bid.volume - self._prev_bid_qty
             ask_part == IF ask.price > pa THEN self._prev_ask_qty
                         ELSE IF ask.price < pa THEN -ask.volume
                         ELSE -(ask.volume - self._prev_ask_qty)
         IN  bid_part + ask_part

\* a plausible slip: the normalisation block is left out
_calculate_ofi_unnormalised(self, bid, ask) ==
    LET ofi == RawOfi(self, bid, ask)
    IN  [ self |-> [self EXCEPT !._prev_best_bid = Some(bid.price),
                                !._prev_best_ask = Some(ask.price),
                                !._prev_bid_qty = bid.volume,
                                !._prev_ask_qty = ask.volume,
                                !._ofi_history = DequeAppend(@, Abs(ofi), ofi_window)],
          ofi |-> RInt(ofi) ]

\* a plausible slip: the OFI is normalised by the oldest entry of the window,
\* not by the largest
_calculate_ofi_by_oldest(self, bid, ask) ==
    LET ofi == RawOfi(self, bid, ask)
        history == DequeAppend(self._ofi_history, Abs(ofi), ofi_window)
        max_ofi == IF history # <<>> THEN history[1] ELSE 1
        normalised ==
            IF history # <<>> /\ max_ofi > 0
            THEN RMax(RInt(-1), RMin(RInt(1), Rat(ofi, max_ofi)))
            ELSE RInt(ofi)
    IN  [ self |-> [self EXCEPT !._prev_best_bid = Some(bid.price),
                                !._prev_best_ask = Some(ask.price),
                                !._prev_bid_qty = bid.volume,
                                !._prev_ask_qty = ask.volume,
                                !._ofi_history = history],
          ofi |-> normalised ]

\* a plausible slip: the OFI is normalised by the history before it is
\* pushed into it
_calculate_ofi_pushes_after(self, bid, ask) ==
    LET ofi == RawOfi(self, bid, ask)
        before == self._ofi_history
        max_ofi == IF before # <<>> THEN SeqMax(before) ELSE 1
        normalised ==
            IF before # <<>> /\ max_ofi > 0
            THEN RMax(RInt(-1), RMin(RInt(1), Rat(ofi, max_ofi)))
            ELSE RInt(ofi)
    IN  [ self |-> [self EXCEPT !._prev_best_bid = Some(bid.price),
                                !._prev_best_ask = Some(ask.price),
                                !._prev_bid_qty = bid.volume,
                                !._prev_ask_qty = ask.volume,
                                !._ofi_history =
                                    DequeAppend(before, Abs(ofi), ofi_window)],
          ofi |-> normalised ]

\* _calculate_ofi: returns the new state and the normalised OFI
_calculate_ofi(self, bid, ask) ==
    LET ofi == RawOfi(self, bid, ask)
        history == DequeAppend(self._ofi_history, Abs(ofi), ofi_window)
        max_ofi == IF history # <<>> THEN SeqMax(history) ELSE 1
        normalised ==
            IF history # <<>> /\ max_ofi > 0
            THEN RMax(RInt(-1), RMin(RInt(1), Rat(ofi, max_ofi)))
            ELSE RInt(ofi)
    IN  [ self |-> [self EXCEPT !._prev_best_bid = Some(bid.price),
                                !._prev_best_ask = Some(ask.price),
                                !._prev_bid_qty = bid.volume,
                                !._prev_ask_qty = ask.volume,
                                !._ofi_history = history],
          ofi |-> normalised ]

\* the log returns of consecutive positive prices, each named by the ratio
\* prices[i] / prices[i-1] it is the logarithm of
LogReturns(prices) ==
    LET pairs == SelectSeq([i \in 1..(Len(prices) - 1) |-> <<prices[i], prices[i + 1]>>],
                           LAMBDA pair : pair[1].n > 0 /\ pair[2].n > 0)
    IN  [i \in DOMAIN pairs |-> RDiv(pairs[i][2], pairs[i][1])]

\* the standard deviation of the log returns: it is not computed, it is named
\* by the returns it is taken over, and it is 0.0 exactly when all of them
\* are equal (for equal prices every return is log(1.0) = 0.0)
StdDev(log_returns) ==
    [ std_dev_of |-> log_returns,
      zero |-> \A i \in DOMAIN log_returns : log_returns[i] = log_returns[1] ]

\* _calculate_volatility: None below 20 prices and when no two consecutive
\* prices of the window are positive
_calculate_volatility(self) ==
    IF Len(self._price_history) < VolatilityWindow THEN None
    ELSE LET n == Len(self._price_history)
             prices == SubSeq(self._price_history, n - VolatilityWindow + 1, n)
         IN  IF LogReturns(prices) = <<>> THEN None
             ELSE Some(StdDev(LogReturns(prices)))

\* "round(volatility, 6) if volatility else None": None and 0.0 are falsy
RoundIfTruthy(volatility) ==
    IF volatility # None /\ ~volatility[1].zero THEN volatility ELSE None

\* sum of volume * weight over the first n levels of a side, in thousandths
RECURSIVE WeightedVolume(_, _)
WeightedVolume(levels, n) ==
    IF n = 0 THEN 0
    ELSE levels[n].volume * ObiWeights[n] + WeightedVolume(levels, n - 1)

\* num_levels = min(levels, len(book.bids), len(book.asks))
NumLevels(book) ==
    LET m == IF Len(book.bids) < Len(book.asks) THEN Len(book.bids) ELSE Len(book.asks)
    IN  IF ObiLevels < m THEN ObiLevels ELSE m

\* the imbalance of the two weighted sums
ObiRatio(weighted_bid, weighted_ask) ==
    IF weighted_bid + weighted_ask < DustVolume * 1000 THEN RInt(0)
    ELSE Rat(weighted_bid - weighted_ask, weighted_bid + weighted_ask)

\* a plausible slip: each side is summed over its own depth
_calculate_obi_own_depth(self, book) ==
    ObiRatio(WeightedVolume(book.bids, IF Len(book.bids) < ObiLevels
                                       THEN Len(book.bids) ELSE ObiLevels),
             WeightedVolume(book.asks, IF Len(book.asks) < ObiLevels
                                       THEN Len(book.asks) ELSE ObiLevels))

\* _calculate_obi
_calculate_obi(self, book) ==
    ObiRatio(WeightedVolume(book.bids, NumLevels(book)),
             WeightedVolume(book.asks, NumLevels(book)))

\* a plausible slip: each price is weighted by its own side's volume
_calculate_microprice_own_side(bid, ask) ==
    IF bid.volume + ask.volume < DustVolume
    THEN Rat(bid.price + ask.price, 2)
    ELSE Rat(bid.volume * bid.price + ask.volume * ask.price,
             bid.volume + ask.volume)

\* _calculate_microprice
_calculate_microprice(bid, ask) ==
    IF bid.volume + ask.volume < DustVolume
    THEN Rat(bid.price + ask.price, 2)
    ELSE Rat(bid.volume * ask.price + ask.volume * bid.price,
             bid.volume + ask.volume)

\* analyze past its guard: both sides are present
AnalyzeBook(self, book) ==
    LET o == _calculate_ofi(self, book.bids[1], book.asks[1])
        mid == mid_price(book)[1]
        s2 == [o.self EXCEPT !._price_history =
                   DequeAppend(@, mid, self.price_history_size)]
    IN  [ self |-> s2,
          raised |-> "",
          value |-> Some([ mid_price |-> round(mid, 6),
                           spread |-> round(RInt(spread(book)[1]), 6),
                           ofi |-> round(o.ofi, 4),
                           obi |-> round(_calculate_obi(self, book), 4),
                           microprice |->
                               round(_calculate_microprice(book.bids[1], book.asks[1]), 6),
                           volatility |-> RoundIfTruthy(_calculate_volatility(s2)),
                           vpin |-> None ]) ]

\* a plausible slip: a snapshot starts a new bucket of trades
MicrostructureAnalyzer_analyze_closes_bucket(self, book) ==
    IF book.bids = <<>> \/ book.asks = <<>>
    THEN [self |-> self, raised |-> "ValueError", value |-> None]
    ELSE [AnalyzeBook(self, book) EXCEPT !.self._current_bucket_volume = 0,
                                         !.self._current_bucket_buys = 0,
                                         !.self._current_bucket_sells = 0]

\* a plausible slip: an incomplete snapshot also forgets the previous quote
MicrostructureAnalyzer_analyze_forgets(self, book) ==
    IF book.bids = <<>> \/ book.asks = <<>>
    THEN [self |-> [self EXCEPT !._prev_best_bid = None, !._prev_best_ask = None],
          raised |-> "ValueError", value |-> None]
    ELSE AnalyzeBook(self, book)

\* MicrostructureAnalyzer.analyze:
\* [self: new state, raised: "" or the exception, value: None or the metrics]
MicrostructureAnalyzer_analyze(self, book) ==
    IF book.bids = <<>> \/ book.asks = <<>>
    THEN [self |-> self, raised |-> "ValueError", value |-> None]
    ELSE AnalyzeBook(self, book)

\* sum(...) of a sequence of rationals; the additions are exact, so they
\* are made by halves of the sequence
RECURSIVE SumRange(_, _, _)
SumRange(s, lo, hi) ==
    IF lo > hi THEN RInt(0)
    ELSE IF lo = hi THEN s[lo]
    ELSE RAdd(SumRange(s, lo, (lo + hi) \div 2), SumRange(s, (lo + hi) \div 2 + 1, hi))
RSum(s) == SumRange(s, 1, Len(s))

\* The accumulators of the bucket are floats.  A float is modelled as an
\* integer with at most MantissaBits significant bits (an integer stands for
\* a multiple of the smallest volume step); the code's floats have 53.
MantissaBits == 3

\* the spacing of the floats around n >= 0
RECURSIVE Ulp(_, _)
Ulp(n, u) == IF n < (2 ^ MantissaBits) * u THEN u ELSE Ulp(n, 2 * u)

\* n >= 0 rounded to the nearest float, ties to the even mantissa
FlAbs(n, u) ==
    LET q == n \div u
        r == n % u
    IN  IF 2 * r < u THEN q * u
        ELSE IF 2 * r > u THEN (q + 1) * u
        ELSE IF q % 2 = 0 THEN q * u ELSE (q + 1) * u
Fl(n) == IF n >= 0 THEN FlAbs(n, Ulp(n, 1)) ELSE -FlAbs(-n, Ulp(-n, 1))

\* x + y on floats
FAdd(x, y) == Fl(x + y)

\* a plausible slip: the volume above the bucket size is carried into the
\* next bucket
update_vpin_keeps_excess(self, trade_volume, is_buy) ==
    LET buys == IF is_buy THEN FAdd(self._current_bucket_buys, trade_volume)
                ELSE self._current_bucket_buys
        sells == IF is_buy THEN self._current_bucket_sells
                 ELSE FAdd(self._current_bucket_sells, trade_volume)
        volume == FAdd(self._current_bucket_volume, trade_volume)
        complete == volume >= self.vpin_bucket_size
        total == FAdd(buys, sells)
        imbalances ==
            IF complete /\ total > 0
            THEN DequeAppend(self._bucket_imbalances,
                             Rat(Abs(buys - sells), total), BucketImbalancesMaxlen)
            ELSE self._bucket_imbalances
        s2 == [self EXCEPT !._current_bucket_volume =
                               IF complete THEN volume - self.vpin_bucket_size ELSE volume,
                           !._current_bucket_buys = IF complete THEN 0 ELSE buys,
                           !._current_bucket_sells = IF complete THEN 0 ELSE sells,
                           !._bucket_imbalances = imbalances]
    IN  [ self |-> s2,
          raised |-> "",
          value |-> IF Len(imbalances) >= VpinMinBuckets
                    THEN Some(RDiv(RSum(imbalances), RInt(Len(imbalances))))
                    ELSE None ]

\* a plausible slip, the docstring's reading: the VPIN is returned by the
\* calls that complete a bucket and by no other
update_vpin_on_completion(self, trade_volume, is_buy) ==
    LET buys == IF is_buy THEN FAdd(self._current_bucket_buys, trade_volume)
                ELSE self._current_bucket_buys
        sells == IF is_buy THEN self._current_bucket_sells
                 ELSE FAdd(self._current_bucket_sells, trade_volume)
        volume == FAdd(self._current_bucket_volume, trade_volume)
        complete == volume >= self.vpin_bucket_size
        total == FAdd(buys, sells)
        imbalances ==
            IF complete /\ total > 0
            THEN DequeAppend(self._bucket_imbalances,
                             Rat(Abs(buys - sells), total), BucketImbalancesMaxlen)
            ELSE self._bucket_imbalances
        s2 == [self EXCEPT !._current_bucket_volume = IF complete THEN 0 ELSE volume,
                           !._current_bucket_buys = IF complete THEN 0 ELSE buys,
                           !._current_bucket_sells = IF complete THEN 0 ELSE sells,
                           !._bucket_imbalances = imbalances]
    IN  [ self |-> s2,
          raised |-> "",
          value |-> IF complete /\ Len(imbalances) >= VpinMinBuckets
                    THEN Some(RDiv(RSum(imbalances), RInt(Len(imbalances))))
                    ELSE None ]

\* update_vpin: [self: new state, value: the VPIN or None]
update_vpin(self, trade_volume, is_buy) ==
    LET buys == IF is_buy THEN FAdd(self._current_bucket_buys, trade_volume)
                ELSE self._current_bucket_buys
        sells == IF is_buy THEN self._current_bucket_sells
                 ELSE FAdd(self._current_bucket_sells, trade_volume)
        volume == FAdd(self._current_bucket_volume, trade_volume)
        complete == volume >= self.vpin_bucket_size
        total == FAdd(buys, sells)
        imbalances ==
            IF complete /\ total > 0
            THEN DequeAppend(self._bucket_imbalances,
                             Rat(Abs(buys - sells), total), BucketImbalancesMaxlen)
            ELSE self._bucket_imbalances
        s2 == [self EXCEPT !._current_bucket_volume = IF complete THEN 0 ELSE volume,
                           !._current_bucket_buys = IF complete THEN 0 ELSE buys,
                           !._current_bucket_sells = IF complete THEN 0 ELSE sells,
                           !._bucket_imbalances = imbalances]
    IN  [ self |-> s2,
          raised |-> "",
          value |-> IF Len(imbalances) >= VpinMinBuckets
                    THEN Some(RDiv(RSum(imbalances), RInt(Len(imbalances))))
                    ELSE None ]

\* a plausible slip: reset() clears the buffers and leaves the previous quote
MicrostructureAnalyzer_reset_keeps_quote(self) ==
    [self EXCEPT !._ofi_history = <<>>,
                 !._price_history = <<>>,
                 !._current_bucket_volume = 0,
                 !._current_bucket_buys = 0,
                 !._current_bucket_sells = 0,
                 !._bucket_imbalances = <<>>]

\* MicrostructureAnalyzer.reset
MicrostructureAnalyzer_reset(self) ==
    [self EXCEPT !._prev_best_bid = None,
                 !._prev_best_ask = None,
                 !._prev_bid_qty = 0,
                 !._prev_ask_qty = 0,
                 !._ofi_history = <<>>,
                 !._price_history = <<>>,
                 !._current_bucket_volume = 0,
                 !._current_bucket_buys = 0,
                 !._current_bucket_sells = 0,
                 !._bucket_imbalances = <<>>]

----------------------------------------------------------------------------
(* AnomalyDetector, core/anomaly_detection.py *)

\* Scores (risk_score, spoofing_risk, liquidity_score, overall_risk_score)
\* are float64 in the program; here they are integers counting 10^-3, each
\* computed exactly and then floored.  The threshold tests that decide
\* whether a detector fires are exact rational comparisons.

\* floor(x * 10^k) by long division
RECURSIVE LongDiv(_, _, _, _)
LongDiv(q, r, d, k) ==
    IF k = 0 THEN q ELSE LongDiv(10 * q + (10 * r) \div d, (10 * r) % d, d, k - 1)
Floor(x, k) == LongDiv(x.n \div x.d, x.n % x.d, x.d, k)
Milli(x) == Floor(x, 3)
Hundred == 100 * Pow10(3)

\* floor(sqrt(n)) by bisection on lo <= sqrt(n) < hi
RECURSIVE Bisect(_, _, _)
Bisect(n, lo, hi) ==
    IF hi - lo <= 1 THEN lo
    ELSE LET mid == (lo + hi) \div 2
         IN  IF mid * mid <= n THEN Bisect(n, mid, hi) ELSE Bisect(n, lo, mid)
ISqrt(n) == Bisect(n, 0, 46340)

IMin(a, b) == IF a < b THEN a ELSE b
IMax(a, b) == IF a > b THEN a ELSE b

RECURSIVE SumVolumes(_)
SumVolumes(levels) ==
    IF levels = <<>> THEN 0 ELSE levels[1].volume + SumVolumes(Tail(levels))

RECURSIVE MaxVolume(_)
MaxVolume(levels) ==
    IF Len(levels) = 1 THEN levels[1].volume
    ELSE IMax(levels[1].volume, MaxVolume(Tail(levels)))

\* levels[:k]
Slice(levels, k) == SubSeq(levels, 1, IMin(k, Len(levels)))

\* constructor defaults
spoofing_volume_threshold == 5
liquidity_gap_threshold == 50
imbalance_threshold == Rat(7, 10)
spread_shock_multiplier == 3
ewma_alpha == Rat(1, 20)

\* maxlen of the detector's _price_history
DetPriceHistoryMaxlen == 50

\* AnomalyDetector.__init__
AnomalyDetector_init ==
    [ _avg_spread |-> RInt(0),
      _avg_spread_sq |-> RInt(0),
      _avg_l1_volume |-> RInt(100),
      _prev_book |-> None,
      _order_timestamps |-> <<>>,
      _price_history |-> <<>>,
      _spoofing_events |-> 0 ]

\* the anomalies carry type, severity, risk_score and the side and level of
\* their details; message and timestamp are not modelled
Anomaly(type, severity, risk_score, side, level) ==
    [type |-> type, severity |-> severity, risk_score |-> risk_score,
     side |-> side, level |-> level]

MarketState(regime, anomalies, overall, spoofing_risk, liquidity_score) ==
    [regime |-> regime, anomalies |-> anomalies, overall_risk_score |-> overall,
     spoofing_risk |-> spoofing_risk, liquidity_score |-> liquidity_score]

\* OrderBook.spread_bps: None when the spread is 0 (falsy)
spread_bps(book) ==
    IF spread(book) # None /\ spread(book)[1] # 0
    THEN Some(RMul(RDiv(RInt(spread(book)[1]), mid_price(book)[1]), RInt(10000)))
    ELSE None

Ewma(avg, x) == RAdd(RMul(RSub(RInt(1), ewma_alpha), avg), RMul(ewma_alpha, x))

\* a plausible slip: the first snapshot seeds the spread statistics
_update_statistics_seeded(self, book) ==
    LET s == spread(book)[1]
        l1_volume == Rat(book.bids[1].volume + book.asks[1].volume, 2)
        first == self._avg_spread = RInt(0) /\ self._avg_spread_sq = RInt(0)
    IN  [self EXCEPT !._avg_spread = IF first THEN RInt(s) ELSE Ewma(@, RInt(s)),
                     !._avg_spread_sq = IF first THEN RInt(s * s) ELSE Ewma(@, RInt(s * s)),
                     !._avg_l1_volume = Ewma(@, l1_volume)]

\* _update_statistics
_update_statistics(self, book) ==
    LET s == spread(book)[1]
        l1_volume == Rat(book.bids[1].volume + book.asks[1].volume, 2)
    IN  [self EXCEPT !._avg_spread = Ewma(@, RInt(s)),
                     !._avg_spread_sq = Ewma(@, RInt(s * s)),
                     !._avg_l1_volume = Ewma(@, l1_volume)]

\* the first of the given levels whose volume exceeds the threshold, or 0
FirstAbove(levels, threshold) ==
    LET hits == {i \in 1..Len(levels) : RLt(threshold, RInt(levels[i].volume))}
    IN  IF hits = {} THEN 0 ELSE CHOOSE i \in hits : \A j \in hits : i <= j

SpoofingAnomaly(side, level, volume, threshold) ==
    LET ratio50 == RMul(RDiv(RInt(volume), threshold), RInt(50))
        risk_score == IF RLe(RInt(100), ratio50) THEN Hundred ELSE Milli(ratio50)
    IN  Anomaly("SPOOFING",
                IF RLt(RInt(70), ratio50) THEN "HIGH" ELSE "MEDIUM",
                risk_score, side, level)

\* a plausible slip: only the bid side is scanned
_detect_spoofing_bids_only(self, book) ==
    LET threshold == RMul(self._avg_l1_volume, RInt(spoofing_volume_threshold))
        b == FirstAbove(Slice(book.bids, 5), threshold)
    IN  IF b # 0
        THEN [self |-> [self EXCEPT !._spoofing_events = @ + 1],
              anomaly |-> Some(SpoofingAnomaly("BID", b, book.bids[b].volume, threshold))]
        ELSE [self |-> self, anomaly |-> None]

\* a plausible slip: the ask side is scanned before the bid side
_detect_spoofing_asks_first(self, book) ==
    LET threshold == RMul(self._avg_l1_volume, RInt(spoofing_volume_threshold))
        b == FirstAbove(Slice(book.bids, 5), threshold)
        a == FirstAbove(Slice(book.asks, 5), threshold)
        counted == [self EXCEPT !._spoofing_events = @ + 1]
    IN  IF a # 0
        THEN [self |-> counted,
              anomaly |-> Some(SpoofingAnomaly("ASK", a, book.asks[a].volume, threshold))]
        ELSE IF b # 0
        THEN [self |-> counted,
              anomaly |-> Some(SpoofingAnomaly("BID", b, book.bids[b].volume, threshold))]
        ELSE [self |-> self, anomaly |-> None]

\* _detect_spoofing: [self: new state, anomaly: None or the anomaly]
_detect_spoofing(self, book) ==
    LET threshold == RMul(self._avg_l1_volume, RInt(spoofing_volume_threshold))
        b == FirstAbove(Slice(book.bids, 5), threshold)
        a == FirstAbove(Slice(book.asks, 5), threshold)
        counted == [self EXCEPT !._spoofing_events = @ + 1]
    IN  IF b # 0
        THEN [self |-> counted,
              anomaly |-> Some(SpoofingAnomaly("BID", b, book.bids[b].volume, threshold))]
        ELSE IF a # 0
        THEN [self |-> counted,
              anomaly |-> Some(SpoofingAnomaly("ASK", a, book.asks[a].volume, threshold))]
        ELSE [self |-> self, anomaly |-> None]

LargeCount(levels, threshold) ==
    Cardinality({i \in 1..Len(levels) : RLt(threshold, RInt(levels[i].volume))})

LayeringAnomaly(side, count) ==
    LET score == IMin(100, count * 20)
    IN  Anomaly("LAYERING", IF score > 70 THEN "CRITICAL" ELSE "HIGH",
                score * Pow10(3), side, 0)

\* a plausible slip: the side needs more large levels than the other side,
\* not two more than that
_detect_layering_by_majority(self, book) ==
    LET threshold == RMul(self._avg_l1_volume, RInt(2))
        bid_large_count == LargeCount(Slice(book.bids, 5), threshold)
        ask_large_count == LargeCount(Slice(book.asks, 5), threshold)
    IN  IF bid_large_count >= 3 /\ bid_large_count > ask_large_count
        THEN Some(LayeringAnomaly("BID", bid_large_count))
        ELSE IF ask_large_count >= 3 /\ ask_large_count > bid_large_count
        THEN Some(LayeringAnomaly("ASK", ask_large_count))
        ELSE None

\* _detect_layering
_detect_layering(self, book) ==
    LET threshold == RMul(self._avg_l1_volume, RInt(2))
        bid_large_count == LargeCount(Slice(book.bids, 5), threshold)
        ask_large_count == LargeCount(Slice(book.asks, 5), threshold)
    IN  IF bid_large_count >= 3 /\ bid_large_count > ask_large_count + 2
        THEN Some(LayeringAnomaly("BID", bid_large_count))
        ELSE IF ask_large_count >= 3 /\ ask_large_count > bid_large_count + 2
        THEN Some(LayeringAnomaly("ASK", ask_large_count))
        ELSE None

\* the gaps of one side in scan order; i is the 1-based level, the code's
\* index is i - 1
RECURSIVE SideGaps(_, _, _)
SideGaps(side, levels, i) ==
    IF i > Len(levels) THEN <<>>
    ELSE IF levels[i].volume < liquidity_gap_threshold
    THEN <<Anomaly("LIQUIDITY_GAP",
                   IF i - 1 > 3 THEN "MEDIUM" ELSE "HIGH",
                   IMin(100, (10 - (i - 1)) * 15
                              + (liquidity_gap_threshold - levels[i].volume) * 2)
                       * Pow10(3),
                   side, i)>> \o SideGaps(side, levels, i + 1)
    ELSE SideGaps(side, levels, i + 1)

\* a plausible slip: only the bid side is scanned
_detect_liquidity_gaps_bids_only(self, book) ==
    LET anomalies == SideGaps("bid", Slice(book.bids, 10), 1)
    IN  SubSeq(anomalies, 1, IMin(5, Len(anomalies)))

\* a plausible slip: the last five gaps are kept, not the first five
_detect_liquidity_gaps_last_five(self, book) ==
    LET anomalies == SideGaps("bid", Slice(book.bids, 10), 1)
                     \o SideGaps("ask", Slice(book.asks, 10), 1)
    IN  SubSeq(anomalies, IMax(1, Len(anomalies) - 4), Len(anomalies))

\* _detect_liquidity_gaps
_detect_liquidity_gaps(self, book) ==
    LET anomalies == SideGaps("bid", Slice(book.bids, 10), 1)
                     \o SideGaps("ask", Slice(book.asks, 10), 1)
    IN  SubSeq(anomalies, 1, IMin(5, Len(anomalies)))

\* a plausible slip: a skew beyond 0.9 is CRITICAL
ImbalanceAnomaly_critical(total_bid, total_ask) ==
    LET total == total_bid + total_ask
    IN  IF total = 0 THEN None
        ELSE LET imbalance == Rat(total_bid - total_ask, total)
                 magnitude == Rat(Abs(total_bid - total_ask), total)
             IN  IF RLt(imbalance_threshold, magnitude)
                 THEN Some(Anomaly("HEAVY_IMBALANCE",
                                   IF RLt(Rat(9, 10), magnitude) THEN "CRITICAL" ELSE "HIGH",
                                   IMin(Hundred, Milli(RMul(magnitude, RInt(100)))),
                                   IF imbalance.n > 0 THEN "BID" ELSE "ASK", 0))
                 ELSE None

\* the anomaly for a depth skew beyond the threshold, if any
ImbalanceAnomaly(total_bid, total_ask) ==
    LET total == total_bid + total_ask
    IN  IF total = 0 THEN None
        ELSE LET imbalance == Rat(total_bid - total_ask, total)
                 magnitude == Rat(Abs(total_bid - total_ask), total)
             IN  IF RLt(imbalance_threshold, magnitude)
                 THEN Some(Anomaly("HEAVY_IMBALANCE", "HIGH",
                                   IMin(Hundred, Milli(RMul(magnitude, RInt(100)))),
                                   IF imbalance.n > 0 THEN "BID" ELSE "ASK", 0))
                 ELSE None

\* a plausible slip: the depth is summed over the whole book
_detect_heavy_imbalance_full_depth(self, book) ==
    ImbalanceAnomaly(SumVolumes(book.bids), SumVolumes(book.asks))

\* _detect_heavy_imbalance
_detect_heavy_imbalance(self, book) ==
    ImbalanceAnomaly(SumVolumes(Slice(book.bids, 5)), SumVolumes(Slice(book.asks, 5)))

\* _detect_spread_shock.  With variance v > 0 and d = spread - avg_spread,
\* z = d / sqrt(v): z > m is d > 0 and d^2 > m^2 v.  The z in the risk
\* score is floor(1000 * sqrt(floor(10^6 d^2 / v) / 10^6)) / 1000.
_detect_spread_shock(self, book) ==
    LET s == spread(book)[1]
        variance == RSub(self._avg_spread_sq, RMul(self._avg_spread, self._avg_spread))
        d == RSub(RInt(s), self._avg_spread)
    IN  IF variance.n > 0
        THEN LET zsq == RDiv(RMul(d, d), variance)
                 exceeds(m) == d.n > 0 /\ RLt(RInt(m * m), zsq)
                 z == ISqrt(Floor(zsq, 6))
             IN  IF exceeds(spread_shock_multiplier)
                 THEN Some(Anomaly("SPREAD_SHOCK",
                                   IF exceeds(5) THEN "HIGH" ELSE "MEDIUM",
                                   IF exceeds(5) THEN Hundred ELSE IMin(Hundred, z * 20),
                                   "", 0))
                 ELSE None
        ELSE None

\* a plausible slip: the score is not capped at 100
_calculate_spoofing_risk_uncapped(self, book) ==
    LET max_vol == IMax(MaxVolume(Slice(book.bids, 5)), MaxVolume(Slice(book.asks, 5)))
    IN  IF self._avg_l1_volume.n > 0
        THEN LET ratio == RDiv(RInt(max_vol), self._avg_l1_volume)
             IN  IF RLt(RInt(1), ratio)
                 THEN Milli(RMul(RSub(ratio, RInt(1)), RInt(25)))
                 ELSE 0
        ELSE 0

\* _calculate_spoofing_risk (both sides are non-empty where it is called)
_calculate_spoofing_risk(self, book) ==
    LET max_vol == IMax(MaxVolume(Slice(book.bids, 5)), MaxVolume(Slice(book.asks, 5)))
    IN  IF self._avg_l1_volume.n > 0
        THEN LET ratio == RDiv(RInt(max_vol), self._avg_l1_volume)
             IN  IF RLt(RInt(1), ratio)
                 THEN IF RLe(RInt(5), ratio) THEN Hundred
                      ELSE Milli(RMul(RSub(ratio, RInt(1)), RInt(25)))
                 ELSE 0
        ELSE 0

\* _calculate_liquidity_score
_calculate_liquidity_score(self, book) ==
    LET total_depth == SumVolumes(Slice(book.bids, 5)) + SumVolumes(Slice(book.asks, 5))
        bps == IF spread_bps(book) # None THEN spread_bps(book)[1] ELSE RInt(100)
        depth_score == RMin(RInt(50), Rat(total_depth, 100))
        spread_score == RMax(RInt(0), RSub(RInt(50), bps))
    IN  Milli(RAdd(depth_score, spread_score))

RECURSIVE SumRisk(_)
SumRisk(anomalies) ==
    IF anomalies = <<>> THEN 0 ELSE anomalies[1].risk_score + SumRisk(Tail(anomalies))

\* _calculate_overall_risk
_calculate_overall_risk(anomalies, spoofing_risk, liquidity_score) ==
    LET base_risk == Hundred - liquidity_score
        anomaly_risk == SumRisk(anomalies) \div 5
    IN  IMin(Hundred, (base_risk * 3) \div 10 + (anomaly_risk * 4) \div 10
                       + (spoofing_risk * 3) \div 10)

CountSeverity(anomalies, severity) ==
    Cardinality({i \in 1..Len(anomalies) : anomalies[i].severity = severity})

\* a plausible slip: the count of HIGH anomalies is not consulted
_classify_regime_by_risk_only(anomalies, overall_risk) ==
    IF CountSeverity(anomalies, "CRITICAL") >= 2
       \/ \E i \in 1..Len(anomalies) : anomalies[i].type \in {"SPOOFING", "LAYERING"}
    THEN "MANIPULATION_SUSPECTED"
    ELSE IF overall_risk > 70 * Pow10(3) THEN "STRESSED"
    ELSE IF overall_risk > 40 * Pow10(3) THEN "EXECUTION_HOT"
    ELSE "CALM"

\* _classify_regime
_classify_regime(anomalies, overall_risk) ==
    LET critical_count == CountSeverity(anomalies, "CRITICAL")
        high_count == CountSeverity(anomalies, "HIGH")
    IN  IF critical_count >= 2
           \/ \E i \in 1..Len(anomalies) : anomalies[i].type \in {"SPOOFING", "LAYERING"}
        THEN "MANIPULATION_SUSPECTED"
        ELSE IF overall_risk > 70 * Pow10(3) \/ high_count >= 3 THEN "STRESSED"
        ELSE IF overall_risk > 40 * Pow10(3) THEN "EXECUTION_HOT"
        ELSE "CALM"

\* analyze, the statistics and the price history of a snapshot
Observe(self, book) ==
    LET s1 == _update_statistics(self, book)
    IN  [s1 EXCEPT !._price_history =
              DequeAppend(@, mid_price(book)[1], DetPriceHistoryMaxlen)]

\* analyze, the scores, the regime and the returned MarketState
Report(self, book, anomalies) ==
    LET spoofing_risk == _calculate_spoofing_risk(self, book)
        liquidity_score == _calculate_liquidity_score(self, book)
        overall_risk == _calculate_overall_risk(anomalies, spoofing_risk, liquidity_score)
        regime == _classify_regime(anomalies, overall_risk)
    IN  [self |-> [self EXCEPT !._prev_book = Some(book)],
         raised |-> "",
         value |-> Some(MarketState(regime, anomalies, overall_risk,
                                    spoofing_risk, liquidity_score))]

\* analyze, the detectors in the order of the code; sp is what
\* _detect_spoofing returned
Detect(sp, book) ==
    Report(sp.self, book,
           sp.anomaly
           \o _detect_layering(sp.self, book)
           \o _detect_liquidity_gaps(sp.self, book)
           \o _detect_heavy_imbalance(sp.self, book)
           \o _detect_spread_shock(sp.self, book))

\* analyze past its guard: both sides are present
DetAnalyzeBook(self, book) ==
    Detect(_detect_spoofing(Observe(self, book), book), book)

\* a plausible slip: the neutral early exit still stores the book
AnomalyDetector_analyze_stores_book(self, book) ==
    IF book.bids = <<>> \/ book.asks = <<>>
    THEN [self |-> [self EXCEPT !._prev_book = Some(book)], raised |-> "",
          value |-> Some(MarketState("CALM", <<>>, 0, 0, Hundred))]
    ELSE DetAnalyzeBook(self, book)

\* AnomalyDetector.analyze: [self: new state, raised, value: the MarketState]
AnomalyDetector_analyze(self, book) ==
    IF book.bids = <<>> \/ book.asks = <<>>
    THEN [self |-> self, raised |-> "",
          value |-> Some(MarketState("CALM", <<>>, 0, 0, Hundred))]
    ELSE DetAnalyzeBook(self, book)

\* AnomalyDetector.reset
AnomalyDetector_reset(self) ==
    [self EXCEPT !._avg_spread = RInt(0),
                 !._avg_spread_sq = RInt(0),
                 !._avg_l1_volume = RInt(100),
                 !._prev_book = None,
                 !._order_timestamps = <<>>,
                 !._price_history = <<>>,
                 !._spoofing_events = 0]

----------------------------------------------------------------------------
(* DataValidator, core/data_validator.py *)

\* Raw input.  A field value is a number, None, NaN, an infinity, a string
\* that float() rejects ("abc") or a string that float() accepts ("100").
\* A level is a list or a tuple of field values, or something else.  A side
\* is a list of levels or something else; a missing key is None.
Num(n) == [kind |-> "num", n |-> n]
NumStr(n) == [kind |-> "numstr", n |-> n]
Junk(kind) == [kind |-> kind, n |-> 0]
RawList(items) == [kind |-> "list", items |-> items]
RawTuple(items) == [kind |-> "tuple", items |-> items]
NotALevel == [kind |-> "other", items |-> <<>>]
RawSide(levels) == [kind |-> "list", levels |-> levels]
NotAList == [kind |-> "other", levels |-> <<>>]
Snapshot(bids, asks, mid) == [bids |-> bids, asks |-> asks, mid_price |-> mid]

ValidationResult(errors, warnings) ==
    [is_valid |-> errors = <<>>, errors |-> errors, warnings |-> warnings]
\* an error message: its text without the values, the side and the level
\* index it names (-1 when it names none)
Err(msg, side, i) == [msg |-> msg, side |-> side, level |-> i]

\* _is_valid_number without the tests of isnan and isinf
_is_valid_number_any_float(value) == value.kind \in {"num", "numstr", "nan", "inf"}

\* _is_valid_number: float() accepts numbers and numeric strings; a list or
\* a tuple given as value makes float() raise TypeError, which is caught
_is_valid_number(value) == value.kind \in {"num", "numstr"}

\* "x <= 0", "x < 0" and the like raise TypeError when x is a str
Uncomparable(value) == value.kind = "numstr"

\* the body of the loop of _validate_levels for the level of index i
LevelErrors(level, side, i) ==
    IF level.kind \notin {"list", "tuple"} \/ Len(level.items) < 2
    THEN [raised |-> "", errors |-> <<Err("must be [price, volume]", side, i)>>]
    ELSE IF Uncomparable(level.items[1]) \/ Uncomparable(level.items[2])
    THEN [raised |-> "TypeError", errors |-> <<>>]
    ELSE [raised |-> "",
          errors |->
            (IF ~_is_valid_number(level.items[1]) \/ level.items[1].n <= 0
             THEN <<Err("invalid price", side, i)>> ELSE <<>>)
            \o (IF ~_is_valid_number(level.items[2]) \/ level.items[2].n < 0
                THEN <<Err("invalid volume", side, i)>> ELSE <<>>)]

\* one more turn of the loop: errs is what the turns before gave, level what
\* this turn gives
Extend(errs, level) ==
    IF errs.raised # "" \/ level.raised # "" THEN [raised |-> "TypeError", errors |-> <<>>]
    ELSE [raised |-> "", errors |-> errs.errors \o level.errors]

\* the loop of _validate_levels from the level of index i on, errs being
\* what the levels before gave
RECURSIVE ValidateFrom(_, _, _, _, _)
ValidateFrom(levels, side, i, limit, errs) ==
    IF i >= Len(levels) \/ i >= limit THEN errs
    ELSE ValidateFrom(levels, side, i + 1, limit,
                      Extend(errs, LevelErrors(levels[i + 1], side, i)))

\* max_check of _validate_levels
max_check == 10

\* _validate_levels: [raised, errors]
_validate_levels(levels, side) ==
    ValidateFrom(levels, side, 0, max_check, [raised |-> "", errors |-> <<>>])

\* validate_snapshot, the structure of one side
SideErrors(raw, side, must, empty) ==
    IF raw.kind # "list" THEN [raised |-> "", errors |-> <<Err(must, "", -1)>>]
    ELSE IF raw.levels = <<>> THEN [raised |-> "", errors |-> <<Err(empty, "", -1)>>]
    ELSE _validate_levels(raw.levels, side)

\* "bids[0][0] if isinstance(bids[0], list) else bids[0]"
BestOf(raw) ==
    IF raw.levels[1].kind = "list" THEN raw.levels[1].items[1] ELSE raw.levels[1]

\* the cross-validation of the two best prices, both valid numbers:
\* [errors, warnings]
CrossErrors(best_bid_, best_ask_) ==
    [errors |->
        (IF best_bid_ >= best_ask_
         THEN <<Err("Invalid book: best_bid >= best_ask", "", -1)>> ELSE <<>>)
        \o (IF best_ask_ - best_bid_ < 0
            THEN <<Err("Negative spread", "", -1)>> ELSE <<>>),
     warnings |->
        IF best_ask_ - best_bid_ >= 0 /\ best_bid_ + best_ask_ > 0
           /\ 20 * (best_ask_ - best_bid_) > best_bid_ + best_ask_
        THEN <<"Wide spread">> ELSE <<>>]

\* validate_snapshot from the cross-validation on; errors are those of the
\* two sides
CrossAndMid(snapshot, errors) ==
    LET cross ==
            IF errors = <<>>
               /\ _is_valid_number(BestOf(snapshot.bids[1]))
               /\ _is_valid_number(BestOf(snapshot.asks[1]))
            THEN CrossErrors(BestOf(snapshot.bids[1]).n, BestOf(snapshot.asks[1]).n)
            ELSE [errors |-> <<>>, warnings |-> <<>>]
    IN  IF snapshot.mid_price # None /\ Uncomparable(snapshot.mid_price[1])
        THEN [raised |-> "TypeError", value |-> None]
        ELSE [raised |-> "",
              value |-> Some(ValidationResult(
                  errors \o cross.errors
                  \o (IF snapshot.mid_price # None
                         /\ (~_is_valid_number(snapshot.mid_price[1])
                             \/ snapshot.mid_price[1].n <= 0)
                      THEN <<Err("Invalid mid_price", "", -1)>> ELSE <<>>),
                  cross.warnings))]

\* validate_snapshot with both keys present; b and a are what the two
\* sides gave
BothSides(snapshot, b, a) ==
    IF b.raised # "" \/ a.raised # "" THEN [raised |-> "TypeError", value |-> None]
    ELSE CrossAndMid(snapshot, b.errors \o a.errors)

\* DataValidator.validate_snapshot: [raised, value: the ValidationResult]
validate_snapshot(snapshot) ==
    IF snapshot.bids = None \/ snapshot.asks = None
    THEN [raised |-> "",
          value |-> Some(ValidationResult(
              (IF snapshot.bids = None
               THEN <<Err("Missing required field: bids", "", -1)>> ELSE <<>>)
              \o (IF snapshot.asks = None
                  THEN <<Err("Missing required field: asks", "", -1)>> ELSE <<>>),
              <<>>))]
    ELSE BothSides(snapshot,
                   SideErrors(snapshot.bids[1], "bid",
                              "Bids must be a list", "Bids list cannot be empty"),
                   SideErrors(snapshot.asks[1], "ask",
                              "Asks must be a list", "Asks list cannot be empty"))

----------------------------------------------------------------------------
(* The MCP tools, tools/microstructure_tools.py *)

\* _get_analyzer: the global instance, created on first use
_get_analyzer(global) ==
    IF global = None THEN MicrostructureAnalyzer_init ELSE global[1]

\* validate_order_book of core/data_validator.py
validate_order_book(bids, asks) ==
    validate_snapshot(Snapshot(Some(bids), Some(asks), None))

\* OrderBook.from_raw on sides found valid
FromRawSide(levels) ==
    [i \in 1..Len(levels) |-> Level(levels[i].items[1].n, levels[i].items[2].n)]
from_raw(bids, asks) == OrderBook(FromRawSide(bids.levels), FromRawSide(asks.levels))

\* the JSON of analyze_orderbook: the metrics under the symbol given
Respond(r, symbol) ==
    [ global |-> Some(r.self),
      raised |-> r.raised,
      value |-> IF r.raised # "" THEN None
                ELSE Some([valid |-> TRUE, symbol |-> symbol, metrics |-> r.value[1]]) ]

\* analyze_orderbook once validate_order_book has answered v
Validated_analyze(global, v, bids, asks, symbol) ==
    IF v.raised # "" THEN [global |-> global, raised |-> v.raised, value |-> None]
    ELSE IF ~v.value[1].is_valid
    THEN [ global |-> global, raised |-> "",
           value |-> Some([valid |-> FALSE, details |-> v.value[1].errors]) ]
    ELSE Respond(MicrostructureAnalyzer_analyze(_get_analyzer(global),
                                                from_raw(bids, asks)), symbol)

\* analyze_orderbook:
\* [global: the new _analyzer, raised, value: None or the JSON returned]
analyze_orderbook(global, bids, asks, symbol) ==
    Validated_analyze(global, validate_order_book(bids, asks), bids, asks, symbol)

\* a plausible slip: reset_analyzer leaves the instance as it is
reset_analyzer_keeps(global) == global

\* reset_analyzer: the new _analyzer
reset_analyzer(global) == Some(MicrostructureAnalyzer_init)

----------------------------------------------------------------------------
(* The calls a client makes on the analyzer *)

\* what a call saw and returned; before is the part of the state the call
\* began in that the properties below refer to
Call(op, arg, before, r) ==
    [op |-> op, arg |-> arg, before |-> before, raised |-> r.raised, value |-> r.value]
NoCall == [op |-> "none", arg |-> None, before |-> None, raised |-> "", value |-> None]

\* the top-of-book the analyzer remembers from the previous snapshot
PrevTop(self) ==
    [ _prev_best_bid |-> self._prev_best_bid,
      _prev_best_ask |-> self._prev_best_ask,
      _prev_bid_qty |-> self._prev_bid_qty,
      _prev_ask_qty |-> self._prev_ask_qty ]

Analyze(book) ==
    /\ \E r \in {MicrostructureAnalyzer_analyze(analyzer, book)},
          f \in {MicrostructureAnalyzer_analyze(fresh, book)} :
           /\ analyzer' = r.self
           /\ fresh' = f.self
           /\ ret' = Call("analyze", Some(book), Some(PrevTop(analyzer)), r)
           /\ fresh_ret' = Call("analyze", Some(book), Some(PrevTop(fresh)), f)
    /\ UNCHANGED <<dirty_reset, trades, dvars, vvars, tvars>>

UpdateVpin(trade_volume, is_buy) ==
    /\ Len(analyzer._bucket_imbalances) < MaxBuckets
    /\ \E arg \in {Some([trade_volume |-> trade_volume, is_buy |-> is_buy])},
          r \in {update_vpin(analyzer, trade_volume, is_buy)},
          f \in {update_vpin(fresh, trade_volume, is_buy)} :
           /\ analyzer' = r.self
           /\ fresh' = f.self
           /\ ret' = Call("update_vpin", arg, None, r)
           /\ fresh_ret' = Call("update_vpin", arg, None, f)
    /\ UNCHANGED <<dirty_reset, trades, dvars, vvars, tvars>>

Reset ==
    /\ analyzer' = MicrostructureAnalyzer_reset(analyzer)
    /\ fresh' = MicrostructureAnalyzer_init
    /\ ret' = Call("reset", None, None, [raised |-> "", value |-> None])
    /\ fresh_ret' = ret'
    /\ dirty_reset' = (dirty_reset \/ analyzer # MicrostructureAnalyzer_init)
    /\ UNCHANGED <<trades, dvars, vvars, tvars>>

\* update_vpin on an analyzer that has completed buckets before
VpinTrade(trade_volume, is_buy) ==
    /\ trades < MaxTrades
    /\ trades' = trades + 1
    /\ \E r \in {update_vpin(analyzer, trade_volume, is_buy)} :
           /\ analyzer' = r.self
           /\ ret' = Call("update_vpin",
                          Some([trade_volume |-> trade_volume, is_buy |-> is_buy]),
                          Some(analyzer), r)
    /\ UNCHANGED <<fresh, fresh_ret, dirty_reset, dvars, vvars, tvars>>

----------------------------------------------------------------------------
(* The calls a client makes on the detector *)

DetAnalyze(book) ==
    /\ (book.bids # <<>> /\ book.asks # <<>>)
         => Len(detector._price_history) < MaxDetCalls
    /\ \E r \in {AnomalyDetector_analyze(detector, book)},
          f \in {AnomalyDetector_analyze(det_fresh, book)} :
           /\ detector' = r.self
           /\ det_fresh' = f.self
           /\ det_ret' = Call("analyze", Some(book), Some(detector), r)
           /\ det_fresh_ret' = Call("analyze", Some(book), Some(det_fresh), f)
    /\ UNCHANGED <<det_dirty_reset, avars, vvars, tvars>>

DetReset ==
    /\ detector' = AnomalyDetector_reset(detector)
    /\ det_fresh' = AnomalyDetector_init
    /\ det_ret' = Call("reset", None, None, [raised |-> "", value |-> None])
    /\ det_fresh_ret' = det_ret'
    /\ det_dirty_reset' = (det_dirty_reset \/ detector # AnomalyDetector_init)
    /\ UNCHANGED <<avars, vvars, tvars>>

----------------------------------------------------------------------------
(* The calls a client makes on the validator *)

\* a level as the feeds give it, [price, volume], and as a 2-tuple
Pair(price, volume) == RawList(<<Num(price), Num(volume)>>)
TuplePair(price, volume) == RawTuple(<<Num(price), Num(volume)>>)

\* a list of depth well-formed levels, the best at price, one tick apart in
\* the direction step
Ladder(price, step, depth) == [i \in 1..depth |-> Pair(price + step * (i - 1), 1)]

\* what a field can hold besides a number
JunkFields == { Junk("none"), Junk("nan"), Junk("inf"), Junk("str") }

\* the value of the key "bids": absent, not a list, or a list of levels
BidSides ==
    { None, Some(NotAList), Some(RawSide(<<>>)),
      Some(RawSide(<<NotALevel>>)),
      Some(RawSide(<<RawList(<<Num(100)>>)>>)),
      Some(RawSide(<<RawList(<<Num(100), Num(1), Num(7)>>)>>)),
      Some(RawSide(<<Pair(100, 10)>>)),
      Some(RawSide(<<Pair(101, 10)>>)),
      Some(RawSide(<<Pair(50, 10)>>)),
      Some(RawSide(<<Pair(0, 10)>>)),
      Some(RawSide(<<Pair(100, 0)>>)),
      Some(RawSide(<<Pair(100, -1)>>)),
      Some(RawSide(<<TuplePair(100, 10)>>)),
      Some(RawSide(<<TuplePair(101, 10)>>)),
      Some(RawSide(<<Pair(101, 10), Pair(100, -1)>>)),
      Some(RawSide(<<Pair(100, 10), NotALevel>>)),
      Some(RawSide(<<RawList(<<NumStr(100), Num(1)>>)>>)),
      Some(RawSide(<<RawList(<<Num(100), NumStr(1)>>)>>)),
      Some(RawSide(<<RawList(<<Junk("str"), NumStr(1)>>)>>)),
      Some(RawSide(Ladder(100, -1, max_check))),
      Some(RawSide(Ladder(100, -1, max_check) \o <<Pair(-1, 1)>>)),
      Some(RawSide(Ladder(100, -1, max_check) \o <<NotALevel>>)),
      Some(RawSide(Ladder(100, -1, max_check - 1) \o <<Pair(-1, 1)>>)) }
    \cup { Some(RawSide(<<RawList(<<j, Num(1)>>)>>)) : j \in JunkFields }
    \cup { Some(RawSide(<<RawList(<<Num(100), j>>)>>)) : j \in JunkFields }
    \cup { Some(RawSide(Ladder(100, -1, max_check) \o <<RawList(<<Num(90), j>>)>>)) :
             j \in JunkFields }

\* the value of the key "asks"
AskSides ==
    { None, Some(NotAList), Some(RawSide(<<>>)),
      Some(RawSide(<<Pair(101, 10)>>)),
      Some(RawSide(<<Pair(100, 10)>>)),
      Some(RawSide(<<TuplePair(100, 10)>>)),
      Some(RawSide(<<Pair(102, 10), Pair(103, -1)>>)),
      Some(RawSide(<<RawList(<<Num(101), Junk("nan")>>)>>)),
      Some(RawSide(<<RawList(<<NumStr(101), Num(1)>>)>>)),
      Some(RawSide(Ladder(101, 1, max_check) \o <<Pair(0, 1)>>)) }

\* the value of the key "mid_price", absent in the feeds' snapshots
MidPrices ==
    { None, Some(Num(100)), Some(Num(0)), Some(Junk("none")), Some(Junk("nan")),
      Some(NumStr(100)) }

Snapshots ==
    { Snapshot(b, a, None) : b \in BidSides, a \in AskSides }
    \cup { Snapshot(Some(RawSide(<<Pair(100, 10)>>)), a, m) :
             a \in {Some(RawSide(<<Pair(101, 10)>>)), None}, m \in MidPrices }

ValidateSnapshot(snapshot) ==
    /\ validation' = Call("validate_snapshot", Some(snapshot), None,
                          validate_snapshot(snapshot))
    /\ UNCHANGED <<avars, dvars, tvars>>

----------------------------------------------------------------------------
(* The calls a client makes on the MCP tools *)

\* the symbols of the streams, and what analyze_orderbook is given for
\* bids and for asks: the best bid moves and grows, the last bid crosses
\* the ask
Symbols == {"BTCUSDT", "ETHUSDT"}
ToolBids ==
    { RawSide(<<Pair(10, 1)>>), RawSide(<<Pair(11, 1)>>), RawSide(<<Pair(11, 4)>>),
      RawSide(<<Pair(12, 1)>>) }
ToolAsks == { RawSide(<<Pair(12, 1)>>) }

\* the tool answered with metrics
Answered(r) == r.raised = "" /\ r.value[1].valid

AnalyzeOrderbook(bids, asks, symbol) ==
    /\ tool_calls < MaxToolCalls
    /\ tool_calls' = tool_calls + 1
    /\ \E r \in {analyze_orderbook(_analyzer, bids, asks, symbol)} :
           /\ _analyzer' = r.global
           /\ tool_ret' = Call("analyze_orderbook",
                               Some([bids |-> bids, asks |-> asks, symbol |-> symbol]),
                               Some(PrevTop(_get_analyzer(_analyzer))), r)
           /\ IF Answered(r)
              THEN \E f \in {MicrostructureAnalyzer_analyze(scoped[symbol],
                                                            from_raw(bids, asks))} :
                      /\ scoped' = [scoped EXCEPT ![symbol] = f.self]
                      /\ scoped_ret' = Call("analyze", Some(from_raw(bids, asks)),
                                            Some(PrevTop(scoped[symbol])), f)
              ELSE /\ scoped_ret' = NoCall
                   /\ UNCHANGED scoped
    /\ UNCHANGED <<avars, dvars, vvars>>

ResetAnalyzer ==
    /\ tool_calls < MaxToolCalls
    /\ tool_calls' = tool_calls + 1
    /\ _analyzer' = reset_analyzer(_analyzer)
    /\ scoped' = [symbol \in Symbols |-> MicrostructureAnalyzer_init]
    /\ tool_ret' = Call("reset_analyzer", None, None, [raised |-> "", value |-> None])
    /\ scoped_ret' = NoCall
    /\ UNCHANGED <<avars, dvars, vvars>>

----------------------------------------------------------------------------
(* Specifications *)

\* both objects as constructed
Init ==
    /\ analyzer = MicrostructureAnalyzer_init
    /\ fresh = MicrostructureAnalyzer_init
    /\ ret = NoCall
    /\ fresh_ret = NoCall
    /\ dirty_reset = FALSE
    /\ trades = 0
    /\ detector = AnomalyDetector_init
    /\ det_fresh = AnomalyDetector_init
    /\ det_ret = NoCall
    /\ det_fresh_ret = NoCall
    /\ det_dirty_reset = FALSE
    /\ validation = NoCall
    /\ _analyzer = None
    /\ scoped = [symbol \in Symbols |-> MicrostructureAnalyzer_init]
    /\ tool_ret = NoCall
    /\ scoped_ret = NoCall
    /\ tool_calls = 0

\* the analyzer alone, under every sequence of its three entry points
NextAnalyzer ==
    \/ \E book \in ValidBooks \cup EmptySideBooks : Analyze(book)
    \/ \E v \in TradeVolumes, b \in BOOLEAN : UpdateVpin(v, b)
    \/ Reset

SpecAnalyzer == Init /\ [][NextAnalyzer]_vars

\* the detector alone
NextDetector ==
    \/ \E book \in DetBooks \cup DetEmptySideBooks : DetAnalyze(book)
    \/ DetReset

SpecDetector == Init /\ [][NextDetector]_vars

\* the imbalance of a completed bucket whose trades all went one way, and
\* of one with a single unit trade the other way
OneSided == RInt(1)
TwoSided == Rat(Abs(vpin_bucket_size - 2), vpin_bucket_size)

\* the _bucket_imbalances of an analyzer that has completed buckets: some
\* two-sided buckets, then some one-sided ones, around the 10 imbalances
\* the VPIN needs and the 50 the deque holds
WarmHistories ==
    { Repeat(TwoSided, k[1]) \o Repeat(OneSided, k[2]) :
        k \in { <<0, 0>>,
                <<VpinMinBuckets - 2, 0>>, <<4, VpinMinBuckets - 5>>,
                <<VpinMinBuckets - 1, 0>>, <<0, VpinMinBuckets - 1>>,
                <<VpinMinBuckets, 0>>, <<3, VpinMinBuckets - 3>>,
                <<25, BucketImbalancesMaxlen - 26>>,
                <<BucketImbalancesMaxlen, 0>>, <<1, BucketImbalancesMaxlen - 1>>,
                <<40, BucketImbalancesMaxlen - 40>> } }

\* such an analyzer with its current bucket empty or holding one unit trade
WarmAnalyzers ==
    { [MicrostructureAnalyzer_init EXCEPT
           !._bucket_imbalances = history,
           !._current_bucket_buys = fill[1],
           !._current_bucket_sells = fill[2],
           !._current_bucket_volume = fill[1] + fill[2]] :
        history \in WarmHistories, fill \in {<<0, 0>>, <<1, 0>>, <<0, 1>>} }

\* an analyzer that has completed buckets, everything else as constructed
InitVpin ==
    /\ analyzer \in WarmAnalyzers
    /\ fresh = MicrostructureAnalyzer_init
    /\ ret = NoCall
    /\ fresh_ret = NoCall
    /\ dirty_reset = FALSE
    /\ trades = 0
    /\ detector = AnomalyDetector_init
    /\ det_fresh = AnomalyDetector_init
    /\ det_ret = NoCall
    /\ det_fresh_ret = NoCall
    /\ det_dirty_reset = FALSE
    /\ validation = NoCall
    /\ _analyzer = None
    /\ scoped = [symbol \in Symbols |-> MicrostructureAnalyzer_init]
    /\ tool_ret = NoCall
    /\ scoped_ret = NoCall
    /\ tool_calls = 0

\* the trades of the tape on such an analyzer
NextVpin ==
    \E v \in TradeVolumes, b \in BOOLEAN : VpinTrade(v, b)

SpecVpin == InitVpin /\ [][NextVpin]_vars

----------------------------------------------------------------------------
(* The analyzer at the default price history size, about to fill the
   volatility window *)

DefaultPriceHistorySize == 100
MaxBeyondWindow == 1

\* the analyzer after analyze was called on the first k books in turn
RECURSIVE FedFrom(_, _, _)
FedFrom(self, books, k) ==
    IF k = 0 THEN self
    ELSE MicrostructureAnalyzer_analyze(FedFrom(self, books, k - 1), books[k]).self

\* the mid-price stays at 11, or moves to 11.5
VolBooks ==
    { OrderBook(<<Level(10, 1)>>, <<Level(12, 1)>>),
      OrderBook(<<Level(11, 1)>>, <<Level(12, 1)>>) }

\* tapes of snapshots: one book throughout, or two books in alternation
VolTapes ==
    { [i \in 1..VolatilityWindow |-> IF i % 2 = 0 THEN pair[1] ELSE pair[2]] :
        pair \in VolBooks \X VolBooks }

\* an analyzer that was fed a few snapshots less than the window holds
InitVolatility ==
    /\ \E tape \in VolTapes, short \in {3, 4} :
           analyzer = FedFrom([MicrostructureAnalyzer_init EXCEPT
                                   !.price_history_size = DefaultPriceHistorySize],
                              tape, VolatilityWindow - short)
    /\ fresh = MicrostructureAnalyzer_init
    /\ ret = NoCall
    /\ fresh_ret = NoCall
    /\ dirty_reset = FALSE
    /\ trades = 0
    /\ detector = AnomalyDetector_init
    /\ det_fresh = AnomalyDetector_init
    /\ det_ret = NoCall
    /\ det_fresh_ret = NoCall
    /\ det_dirty_reset = FALSE
    /\ validation = NoCall
    /\ _analyzer = None
    /\ scoped = [symbol \in Symbols |-> MicrostructureAnalyzer_init]
    /\ tool_ret = NoCall
    /\ scoped_ret = NoCall
    /\ tool_calls = 0

\* analyze until the window is filled and passed
AnalyzeToWindow(book) ==
    /\ Len(analyzer._price_history) < VolatilityWindow + MaxBeyondWindow
    /\ Analyze(book)

NextVolatility ==
    \E book \in VolBooks : AnalyzeToWindow(book)

SpecVolatility == InitVolatility /\ [][NextVolatility]_vars

----------------------------------------------------------------------------
(* Snapshots, trades and resets on an analyzer whose buffer of bucket
   imbalances is full or one short of it *)

InitBuffers ==
    /\ analyzer \in { w \in WarmAnalyzers :
                          /\ Len(w._bucket_imbalances) >= BucketImbalancesMaxlen - 1
                          /\ w._current_bucket_volume = 0 }
    /\ fresh = MicrostructureAnalyzer_init
    /\ ret = NoCall
    /\ fresh_ret = NoCall
    /\ dirty_reset = FALSE
    /\ trades = 0
    /\ detector = AnomalyDetector_init
    /\ det_fresh = AnomalyDetector_init
    /\ det_ret = NoCall
    /\ det_fresh_ret = NoCall
    /\ det_dirty_reset = FALSE
    /\ validation = NoCall
    /\ _analyzer = None
    /\ scoped = [symbol \in Symbols |-> MicrostructureAnalyzer_init]
    /\ tool_ret = NoCall
    /\ scoped_ret = NoCall
    /\ tool_calls = 0

NextBuffers ==
    \/ \E book \in VolBooks \cup EmptySideBooks : Analyze(book)
    \/ \E v \in TradeVolumes, b \in BOOLEAN : VpinTrade(v, b)
    \/ Reset

SpecBuffers == InitBuffers /\ [][NextBuffers]_vars

----------------------------------------------------------------------------
(* Trades on an analyzer whose bucket is wider than the floats are exact *)

WideBucketSize == 12
WideVolumes == {0, 1, 2, 7}

InitBucket ==
    /\ analyzer = [MicrostructureAnalyzer_init EXCEPT
                       !.vpin_bucket_size = WideBucketSize]
    /\ fresh = MicrostructureAnalyzer_init
    /\ ret = NoCall
    /\ fresh_ret = NoCall
    /\ dirty_reset = FALSE
    /\ trades = 0
    /\ detector = AnomalyDetector_init
    /\ det_fresh = AnomalyDetector_init
    /\ det_ret = NoCall
    /\ det_fresh_ret = NoCall
    /\ det_dirty_reset = FALSE
    /\ validation = NoCall
    /\ _analyzer = None
    /\ scoped = [symbol \in Symbols |-> MicrostructureAnalyzer_init]
    /\ tool_ret = NoCall
    /\ scoped_ret = NoCall
    /\ tool_calls = 0

NextBucket ==
    \E v \in WideVolumes, b \in BOOLEAN : VpinTrade(v, b)

SpecBucket == InitBucket /\ [][NextBucket]_vars

\* the analyzer on books of several levels
NextMetrics ==
    \E book \in MetricBooks : Analyze(book)

SpecMetrics == Init /\ [][NextMetrics]_vars

\* the validator on raw snapshots
NextValidator ==
    \E snapshot \in Snapshots : ValidateSnapshot(snapshot)

SpecValidator == Init /\ [][NextValidator]_vars

\* the MCP tools on the snapshots of two symbols
NextTool ==
    \/ \E symbol \in Symbols, bids \in ToolBids, asks \in ToolAsks :
          AnalyzeOrderbook(bids, asks, symbol)
    \/ ResetAnalyzer

SpecTool == Init /\ [][NextTool]_vars

\* the two engines side by side, each on a few of its snapshots

BothBooks ==
    { OrderBook(<<Level(10, 1)>>,     <<Level(12, 1)>>),
      OrderBook(<<Level(11, 1)>>,     <<Level(12, 1)>>) }

BothDetBooks ==
    { DetBook(<<100>>, <<100>>, 1),
      DetBook(<<600>>, <<600>>, 2) }

Next ==
    \/ \E book \in BothBooks : Analyze(book)
    \/ \E v \in TradeVolumes, b \in BOOLEAN : UpdateVpin(v, b)
    \/ Reset
    \/ \E book \in BothDetBooks : DetAnalyze(book)
    \/ DetReset

Spec == Init /\ [][Next]_vars

----------------------------------------------------------------------------
(* Properties of the analyzer *)

\* the last call was an analyze that returned metrics
Analyzed == ret.op = "analyze" /\ ret.raised = ""
Metrics == ret.value[1]
\* one unit of the 4-decimal outputs
One4 == Pow10(4)

\* C1: every ofi returned by analyze on a valid snapshot lies in [-1, 1],
\* whatever analyze, update_vpin and reset calls came before.
C1_OfiInRange == Analyzed => (Metrics.ofi >= -One4 /\ Metrics.ofi <= One4)

\* an OFI strictly inside the range, normalised against a full history
C1_Witness ==
    /\ Analyzed
    /\ Metrics.ofi \notin {-One4, 0, One4}
    /\ Len(analyzer._ofi_history) = ofi_window
    /\ analyzer._bucket_imbalances # <<>>
    /\ dirty_reset

\* C2: the first analyze on a freshly constructed analyzer returns ofi = 0
\* for every valid book.
C2_FirstOfiZero ==
    [][(analyzer = MicrostructureAnalyzer_init /\ ret'.op = "analyze" /\ ret'.raised = "")
        => ret'.value[1].ofi = 0]_vars

\* exactly one snapshot has been analysed, with a large best-bid volume
C2_Witness ==
    /\ Analyzed
    /\ ~dirty_reset
    /\ ret.before[1]._prev_best_bid = None
    /\ Len(analyzer._price_history) = 1
    /\ ret.arg[1].bids[1].volume > 1
    /\ Metrics.ofi = 0

\* the best bid rose against the previous snapshot of this analyzer, the
\* best ask (price and volume) is unchanged, the new best-bid volume is > 0
BidRaised ==
    /\ Analyzed
    /\ ret.before[1]._prev_best_bid # None
    /\ ret.arg[1].bids[1].price > ret.before[1]._prev_best_bid[1]
    /\ ret.arg[1].asks[1].price = ret.before[1]._prev_best_ask[1]
    /\ ret.arg[1].asks[1].volume = ret.before[1]._prev_ask_qty
    /\ ret.arg[1].bids[1].volume > 0

\* C3 as stated: a raised best bid always returns ofi > 0.
C3_Original == BidRaised => Metrics.ofi > 0

\* C3 amended: a raised best bid returns ofi >= 0; ofi > 0 when the new
\* best-bid volume is more than 1/20000 of the largest absolute raw OFI in
\* the normalisation window, and ofi = 0 (rounded to 4 decimals) when it is
\* less than that.
C3_BidRaisedOfi ==
    BidRaised =>
        LET v == ret.arg[1].bids[1].volume
            m == SeqMax(analyzer._ofi_history)
        IN  /\ Metrics.ofi >= 0
            /\ (2 * One4 * v > m => Metrics.ofi > 0)
            /\ (2 * One4 * v < m => Metrics.ofi = 0)

\* a raised bid whose volume is dwarfed by an earlier flow in the window
C3_Witness ==
    /\ BidRaised
    /\ 2 * One4 * ret.arg[1].bids[1].volume < SeqMax(analyzer._ofi_history)
    /\ Metrics.ofi = 0

\* C5: analyze on a book with an empty side raises, returns no metrics and
\* leaves every field of the analyzer unchanged.
C5_EmptySideRaises ==
    [][(ret'.op = "analyze" /\ (ret'.arg[1].bids = <<>> \/ ret'.arg[1].asks = <<>>))
        => (ret'.raised = "ValueError" /\ ret'.value = None /\ analyzer' = analyzer)]_vars

\* a failing call on an analyzer that holds OFI, price and VPIN state
C5_Witness ==
    /\ ret.op = "analyze"
    /\ ret.raised = "ValueError"
    /\ ret.arg[1].bids = <<>>
    /\ Len(analyzer._ofi_history) = ofi_window
    /\ analyzer._price_history # <<>>
    /\ analyzer._current_bucket_volume > 0

----------------------------------------------------------------------------
(* Properties of the detector *)

\* the last call on the detector was an analyze; on a book with both sides
DetCalled == det_ret.op = "analyze"
DetBookIn == det_ret.arg[1]
DetAnalyzed == DetCalled /\ DetBookIn.bids # <<>> /\ DetBookIn.asks # <<>>
State == det_ret.value[1]
\* the detector as the call found it
DetBefore == det_ret.before[1]

OfType(type) == {i \in 1..Len(State.anomalies) : State.anomalies[i].type = type}
OfTypeSide(type, side) == {i \in OfType(type) : State.anomalies[i].side = side}

\* C6: analyze on a book with an empty side returns the neutral state
\* (CALM, no anomalies, 0, 0, 100) without raising, and changes no field of
\* the detector.
C6_EmptySideNeutral ==
    [][(det_ret'.op = "analyze"
          /\ (det_ret'.arg[1].bids = <<>> \/ det_ret'.arg[1].asks = <<>>))
        => /\ det_ret'.raised = ""
           /\ det_ret'.value = Some(MarketState("CALM", <<>>, 0, 0, Hundred))
           /\ detector' = detector]_vars

\* an empty-sided call on a detector that holds statistics and history
C6_Witness ==
    /\ DetCalled
    /\ DetBookIn.asks = <<>>
    /\ DetBookIn.bids # <<>>
    /\ detector._avg_l1_volume # RInt(100)
    /\ detector._avg_spread # RInt(0)
    /\ detector._prev_book # None
    /\ detector._spoofing_events > 0
    /\ State.regime = "CALM"

\* the detector had analysed at least one snapshot when the call began
WarmedUp == DetBefore._price_history # <<>>

\* some level of the snapshot, at any depth, exceeds the threshold multiple
\* of the given average level-1 volume
AnyLevelAbove(levels, avg) ==
    \E i \in 1..Len(levels) :
        RLt(RMul(avg, RInt(spoofing_volume_threshold)), RInt(levels[i].volume))

\* C7 as stated: a level above 5 x the avg_l1_volume the call began with
\* yields exactly one SPOOFING anomaly with risk_score > 0.
C7_Original ==
    (DetAnalyzed /\ WarmedUp
       /\ (\/ AnyLevelAbove(DetBookIn.bids, DetBefore._avg_l1_volume)
           \/ AnyLevelAbove(DetBookIn.asks, DetBefore._avg_l1_volume)))
    => (Cardinality(OfType("SPOOFING")) = 1
        /\ \A i \in OfType("SPOOFING") : State.anomalies[i].risk_score > 0)

\* a top-5 level above 5 x the avg_l1_volume as this call updated it
SpoofingCase ==
    /\ DetAnalyzed
    /\ \/ AnyLevelAbove(Slice(DetBookIn.bids, 5), detector._avg_l1_volume)
       \/ AnyLevelAbove(Slice(DetBookIn.asks, 5), detector._avg_l1_volume)

\* C7 amended: if one of the top 5 levels of either side exceeds 5 x the
\* avg_l1_volume as updated with this snapshot, the state holds exactly one
\* SPOOFING anomaly and its risk_score is > 0; otherwise it holds none.
C7_SpoofingDetected ==
    DetAnalyzed =>
        IF SpoofingCase
        THEN /\ Cardinality(OfType("SPOOFING")) = 1
             /\ \A i \in OfType("SPOOFING") : State.anomalies[i].risk_score > 0
        ELSE OfType("SPOOFING") = {}

\* a warmed-up detector reports an outsized ask level; the bids have none
C7_Witness ==
    /\ SpoofingCase
    /\ WarmedUp
    /\ ~AnyLevelAbove(DetBookIn.bids, detector._avg_l1_volume)
    /\ Cardinality(OfType("SPOOFING")) = 1

Bid5 == SumVolumes(Slice(DetBookIn.bids, 5))
Ask5 == SumVolumes(Slice(DetBookIn.asks, 5))
\* |bid5 - ask5| / (bid5 + ask5) > imbalance_threshold
Lopsided ==
    /\ Bid5 + Ask5 > 0
    /\ Abs(Bid5 - Ask5) * imbalance_threshold.d > imbalance_threshold.n * (Bid5 + Ask5)

ClaimedRegime(anomalies, overall) ==
    IF CountSeverity(anomalies, "CRITICAL") >= 2
       \/ (\E i \in 1..Len(anomalies) : anomalies[i].type = "SPOOFING")
       \/ (\E j \in 1..Len(anomalies) : anomalies[j].type = "LAYERING")
    THEN "MANIPULATION_SUSPECTED"
    ELSE IF overall > 70 * Pow10(3) THEN "STRESSED"
    ELSE IF CountSeverity(anomalies, "HIGH") >= 3 THEN "STRESSED"
    ELSE IF overall > 40 * Pow10(3) THEN "EXECUTION_HOT"
    ELSE "CALM"

\* C9: the regime of every returned MarketState is the first match of:
\* MANIPULATION_SUSPECTED on two CRITICAL anomalies or any SPOOFING or
\* LAYERING, STRESSED on overall_risk > 70 or three HIGH anomalies,
\* EXECUTION_HOT on overall_risk > 40, else CALM.
C9_Regime ==
    DetCalled => State.regime = ClaimedRegime(State.anomalies, State.overall_risk_score)

\* STRESSED by the count of HIGH anomalies alone
C9_Witness ==
    /\ DetAnalyzed
    /\ State.regime = "STRESSED"
    /\ State.overall_risk_score <= 70 * Pow10(3)
    /\ CountSeverity(State.anomalies, "HIGH") >= 3

GapLevels(levels) ==
    {i \in 1..Len(Slice(levels, 10)) : levels[i].volume < liquidity_gap_threshold}

\* both sides have a level below the threshold among their top 10
GapsOnBothSides ==
    /\ DetAnalyzed
    /\ GapLevels(DetBookIn.bids) # {}
    /\ GapLevels(DetBookIn.asks) # {}

\* C10 as stated: gaps on both sides yield a bid-side and an ask-side
\* LIQUIDITY_GAP anomaly.
C10_Original ==
    GapsOnBothSides =>
        /\ OfTypeSide("LIQUIDITY_GAP", "bid") # {}
        /\ OfTypeSide("LIQUIDITY_GAP", "ask") # {}

\* C10 amended: gaps on both sides yield a bid-side LIQUIDITY_GAP anomaly,
\* and an ask-side one when fewer than 5 of the top-10 bid levels are
\* below the threshold.
C10_GapsBothSides ==
    GapsOnBothSides =>
        /\ OfTypeSide("LIQUIDITY_GAP", "bid") # {}
        /\ (Cardinality(GapLevels(DetBookIn.bids)) < 5
              => OfTypeSide("LIQUIDITY_GAP", "ask") # {})

\* one thin level on each side, both reported
C10_Witness ==
    /\ GapsOnBothSides
    /\ Cardinality(GapLevels(DetBookIn.bids)) < 5
    /\ OfTypeSide("LIQUIDITY_GAP", "bid") # {}
    /\ OfTypeSide("LIQUIDITY_GAP", "ask") # {}

----------------------------------------------------------------------------
(* reset() on both engines *)

----------------------------------------------------------------------------
(* Properties of the metrics of one snapshot *)

TopBid == ret.arg[1].bids[1]
TopAsk == ret.arg[1].asks[1]
\* the microprice and the mid-price analyze computed, before rounding
Micro == _calculate_microprice(TopBid, TopAsk)
Mid == mid_price(ret.arg[1])[1]
PositiveTop ==
    /\ Analyzed
    /\ TopBid.price < TopAsk.price
    /\ TopBid.volume > 0 /\ TopAsk.volume > 0
MicroInside ==
    RLe(RInt(TopBid.price), Micro) /\ RLe(Micro, RInt(TopAsk.price))

\* C14 as stated: the microprice is below the mid-price exactly when the
\* best-ask volume exceeds the best-bid volume, whatever the volumes
C14_Original ==
    PositiveTop =>
        /\ MicroInside
        /\ RLt(Micro, Mid) <=> TopAsk.volume > TopBid.volume

\* C14 (amended): for a top-of-book with best bid price < best ask price and
\* positive volumes, bid price <= microprice <= ask price, also as returned;
\* when the two volumes sum to at least 1e-9 the microprice is below the
\* mid-price exactly when the best-ask volume exceeds the best-bid volume,
\* and when they sum to less it is the mid-price
C14_Microprice ==
    PositiveTop =>
        /\ MicroInside
        /\ TopBid.price * Pow10(6) <= Metrics.microprice
        /\ Metrics.microprice <= TopAsk.price * Pow10(6)
        /\ TopBid.volume + TopAsk.volume >= DustVolume
              => (RLt(Micro, Mid) <=> TopAsk.volume > TopBid.volume)
        /\ TopBid.volume + TopAsk.volume < DustVolume => Micro = Mid

\* an ask-heavy top-of-book was analysed and its microprice is below the mid
C14_Witness ==
    /\ PositiveTop
    /\ TopAsk.volume > TopBid.volume
    /\ TopBid.volume + TopAsk.volume >= DustVolume
    /\ RLt(Micro, Mid)
    /\ Metrics.microprice < Metrics.mid_price

BookIn == ret.arg[1]
Top5(levels) == SumVolumes(Slice(levels, 5))
\* the decay-weighted volumes of the levels _calculate_obi compares
WeightedBid == WeightedVolume(BookIn.bids, NumLevels(BookIn))
WeightedAsk == WeightedVolume(BookIn.asks, NumLevels(BookIn))
\* x exceeds y by more than 0.00005 of their sum, which is no dust
ClearlyAbove(x, y) ==
    /\ x + y >= DustVolume * 1000
    /\ RLt(Rat(1, 20000), Rat(x - y, x + y))

\* C15 as stated: the side with the greater summed volume over its top 5
\* levels decides the sign of obi
C15_Original ==
    Analyzed =>
        /\ Top5(BookIn.bids) > Top5(BookIn.asks) => Metrics.obi > 0
        /\ Top5(BookIn.asks) > Top5(BookIn.bids) => Metrics.obi < 0

\* C15 (amended): over the first n = min(5, number of bid levels, number of
\* ask levels) levels, with the level of index i weighted by exp(-0.5 i): if
\* the weighted bid volume is the greater then obi >= 0, and obi > 0 when it
\* is greater by more than 0.00005 of the weighted total and that total is
\* at least 1e-9; symmetrically obi <= 0 and obi < 0 for the asks; obi is 0
\* when the weighted total is below 1e-9
C15_ObiSign ==
    Analyzed =>
        /\ WeightedBid > WeightedAsk => Metrics.obi >= 0
        /\ ClearlyAbove(WeightedBid, WeightedAsk) => Metrics.obi > 0
        /\ WeightedAsk > WeightedBid => Metrics.obi <= 0
        /\ ClearlyAbove(WeightedAsk, WeightedBid) => Metrics.obi < 0
        /\ WeightedBid + WeightedAsk < DustVolume * 1000 => Metrics.obi = 0

\* a book whose sides differ in depth and in top-5 volume the other way
\* round was analysed: the bids weigh more over the compared levels
C15_Witness ==
    /\ Analyzed
    /\ Len(BookIn.bids) # Len(BookIn.asks)
    /\ Top5(BookIn.asks) > Top5(BookIn.bids)
    /\ ClearlyAbove(WeightedBid, WeightedAsk)
    /\ Metrics.obi > 0

\* a book the validator accepts: both sides present, best bid below best
\* ask, every price positive and every volume non-negative
SoundBookSide(levels) ==
    levels # <<>> /\ \A i \in DOMAIN levels : levels[i].price > 0 /\ levels[i].volume >= 0
ValidatedBook(book) ==
    /\ SoundBookSide(book.bids) /\ SoundBookSide(book.asks)
    /\ book.bids[1].price < book.asks[1].price

\* a score between 0 and 100, in thousandths
InScoreRange(score) == 0 <= score /\ score <= Hundred

\* C18: for every validated book the detector analyses, the MarketState
\* returned has overall_risk_score, spoofing_risk and liquidity_score in
\* [0, 100] and every anomaly in it has its risk_score in [0, 100].
C18_ScoresInRange ==
    (DetCalled /\ ValidatedBook(DetBookIn)) =>
        /\ InScoreRange(State.overall_risk_score)
        /\ InScoreRange(State.spoofing_risk)
        /\ InScoreRange(State.liquidity_score)
        /\ \A i \in DOMAIN State.anomalies : InScoreRange(State.anomalies[i].risk_score)

\* a validated book with an outsized level: the spoofing risk and the risk
\* of an anomaly stand at the cap, and the other scores inside the range
C18_Witness ==
    /\ DetCalled /\ ValidatedBook(DetBookIn)
    /\ State.spoofing_risk = Hundred
    /\ \E i \in DOMAIN State.anomalies : State.anomalies[i].risk_score = Hundred
    /\ 0 < State.overall_risk_score /\ State.overall_risk_score < Hundred
    /\ 0 < State.liquidity_score /\ State.liquidity_score < Hundred

----------------------------------------------------------------------------
(* Properties of the validator *)

\* the last call of validate_snapshot, its argument and its result
Validated == validation.op = "validate_snapshot"
Raw == validation.arg[1]
Returned == validation.raised = ""
Result == validation.value[1]

\* a level that is a pair, as a list or as a 2-tuple, of two fields
IsPair(level) == level.kind \in {"list", "tuple"} /\ Len(level.items) >= 2
\* a field that is a finite number
Finite(field) == field.kind = "num"
\* a level the validator is to accept
SoundLevel(level) ==
    /\ IsPair(level)
    /\ Finite(level.items[1]) /\ level.items[1].n > 0
    /\ Finite(level.items[2]) /\ level.items[2].n >= 0
\* a side given as a non-empty list
HasLevels(side) == side # None /\ side[1].kind = "list" /\ side[1].levels # <<>>
\* the best level of a side is a pair whose price is a number
HasBest(side) ==
    HasLevels(side) /\ IsPair(side[1].levels[1]) /\ Finite(side[1].levels[1].items[1])
BestPrice(side) == side[1].levels[1].items[1].n
\* the book of the snapshot is crossed
Crossed(snapshot) ==
    /\ HasBest(snapshot.bids) /\ HasBest(snapshot.asks)
    /\ BestPrice(snapshot.bids) >= BestPrice(snapshot.asks)
NamesCrossing(errors) ==
    \E i \in DOMAIN errors : errors[i].msg = "Invalid book: best_bid >= best_ask"

\* C11: whenever the best bid price of the snapshot is at or above its best
\* ask price, validate_snapshot returns is_valid = False with an error that
\* names the crossed book, for list levels, for 2-tuple levels and whatever
\* the other levels hold.
C11_CrossedRejected ==
    (Validated /\ Crossed(Raw)) =>
        (Returned /\ ~Result.is_valid /\ NamesCrossing(Result.errors))

\* the levels of a side down to the depth the validator reads are sound
SoundDownTo(side, depth) ==
    /\ HasLevels(side)
    /\ \A i \in DOMAIN side[1].levels : i <= depth => SoundLevel(side[1].levels[i])

\* C12 as stated: validate_snapshot returns is_valid = True only if every
\* level of both sides, at any depth, is a pair of finite numbers with
\* price > 0 and volume >= 0.
C12_Original ==
    (Validated /\ Returned /\ Result.is_valid) =>
        /\ HasLevels(Raw.bids) /\ HasLevels(Raw.asks)
        /\ \A i \in DOMAIN Raw.bids[1].levels : SoundLevel(Raw.bids[1].levels[i])
        /\ \A i \in DOMAIN Raw.asks[1].levels : SoundLevel(Raw.asks[1].levels[i])

\* C12, amended: validate_snapshot returns is_valid = True only if each of
\* the first 10 levels of bids and of asks is a pair of finite numbers with
\* price > 0 and volume >= 0; deeper levels are not read.
C12_ValidMeansTopLevelsSound ==
    (Validated /\ Returned /\ Result.is_valid) =>
        (SoundDownTo(Raw.bids, max_check) /\ SoundDownTo(Raw.asks, max_check))

\* a snapshot found valid whose bids go deeper than the validator reads and
\* hold an unsound level there
C12_Witness ==
    /\ Validated /\ Returned /\ Result.is_valid
    /\ Len(Raw.bids[1].levels) > max_check
    /\ ~SoundLevel(Raw.bids[1].levels[max_check + 1])

\* the snapshot is malformed: a side is missing, is not a list or is empty,
\* or one of its levels is not a pair of a positive finite price and a
\* non-negative finite volume
SoundSide(side) ==
    HasLevels(side) /\ \A i \in DOMAIN side[1].levels : SoundLevel(side[1].levels[i])
Malformed(snapshot) == ~SoundSide(snapshot.bids) \/ ~SoundSide(snapshot.asks)

\* C13: validate_snapshot never raises, whatever the snapshot holds, and it
\* returns is_valid = False with at least one error when the snapshot is
\* malformed.
C13_NeverRaises ==
    Validated =>
        /\ Returned
        /\ Malformed(Raw) => (~Result.is_valid /\ Result.errors # <<>>)

----------------------------------------------------------------------------
(* Properties of the MCP tools: one analyzer, several symbols *)

\* the last tool call was analyze_orderbook and it answered with metrics;
\* ToolMetrics is what it reported, OwnMetrics what an analyzer fed the
\* snapshots of that symbol alone reports for the same snapshot
ToolAnswered == tool_ret.op = "analyze_orderbook" /\ Answered(tool_ret)
ToolSymbol == tool_ret.arg[1].symbol
ToolMetrics == tool_ret.value[1].metrics
OwnMetrics == scoped_ret.value[1]

\* the global analyzer and the symbol's own analyzer held the same
\* top-of-book of a snapshot N-1 when snapshot N came: they were fed the
\* same snapshots N-1 and N
SamePrevious ==
    /\ ToolAnswered
    /\ tool_ret.before = scoped_ret.before
    /\ tool_ret.before[1]._prev_best_bid # None

\* the largest |OFI| of the window, by which the OFI was normalised
MaxOfi(self) == SeqMax(self._ofi_history)

\* C16 as stated: two analyzers of the same configuration that were fed
\* the same snapshots N-1 and N return the same ofi for snapshot N,
\* whatever they were fed before.
C16_Original ==
    SamePrevious => ToolMetrics.ofi = OwnMetrics.ofi

\* C16, amended: two analyzers of the same configuration that were fed the
\* same snapshots N-1 and N return the same mid_price, spread, obi and
\* microprice for snapshot N and never an ofi of opposite sign; they return
\* the same ofi whenever the largest |OFI| of their ofi_window is the same.
C16_OfiUpToScale ==
    SamePrevious =>
        /\ ToolMetrics.mid_price = OwnMetrics.mid_price
        /\ ToolMetrics.spread = OwnMetrics.spread
        /\ ToolMetrics.obi = OwnMetrics.obi
        /\ ToolMetrics.microprice = OwnMetrics.microprice
        /\ ToolMetrics.ofi * OwnMetrics.ofi >= 0
        /\ MaxOfi(_analyzer[1]) = MaxOfi(scoped[ToolSymbol])
              => ToolMetrics.ofi = OwnMetrics.ofi

\* two analyzers fed the same snapshots N-1 and N after different earlier
\* snapshots, with a flow at snapshot N
C16_Witness ==
    /\ SamePrevious
    /\ _analyzer[1]._ofi_history # scoped[ToolSymbol]._ofi_history
    /\ OwnMetrics.ofi # 0

\* no snapshot of another symbol reached the analyzer since the last
\* reset_analyzer (or since the start)
OnlyThisSymbol ==
    \A symbol \in Symbols \ {ToolSymbol} : scoped[symbol] = MicrostructureAnalyzer_init

\* C17 as stated: the ofi and the volatility analyze_orderbook reports for
\* a snapshot of a symbol are those of an analyzer fed the earlier snapshots
\* of that symbol alone, whatever was submitted for other symbols.
C17_Original ==
    ToolAnswered =>
        /\ ToolMetrics.ofi = OwnMetrics.ofi
        /\ ToolMetrics.volatility = OwnMetrics.volatility

\* C17, amended: analyze_orderbook keeps one analyzer for all symbols; the
\* metrics it reports for a snapshot of a symbol are those of an analyzer
\* fed the earlier snapshots of that symbol alone provided no snapshot of
\* another symbol was analysed since the last reset_analyzer.
C17_ScopedBetweenResets ==
    (ToolAnswered /\ OnlyThisSymbol) => ToolMetrics = OwnMetrics

\* a second snapshot of a symbol with a flow against the first, when the
\* analyzer holds nothing of another symbol
C17_Witness ==
    /\ ToolAnswered /\ OnlyThisSymbol
    /\ scoped_ret.before[1]._prev_best_bid # None
    /\ ToolMetrics.ofi # 0

----------------------------------------------------------------------------
(* Properties of the VPIN *)

\* the last call was an update_vpin; VpinBefore is the analyzer it found,
\* Recorded the imbalances the analyzer holds after it
VpinCalled == ret.op = "update_vpin" /\ ret.before # None
VpinBefore == ret.before[1]
Recorded == analyzer._bucket_imbalances
\* the call brought the volume of the current bucket to vpin_bucket_size
CompletesBucket ==
    FAdd(VpinBefore._current_bucket_volume, ret.arg[1].trade_volume)
        >= VpinBefore.vpin_bucket_size

\* the arithmetic mean of a non-empty sequence of rationals
Mean(s) == RDiv(RSum(s), RInt(Len(s)))

C20_VpinOnlyOnCompletion ==
    (VpinCalled /\ ~CompletesBucket) => ret.value = None

----------------------------------------------------------------------------
(* Properties of the volatility *)

\* C21: analyze returns volatility None exactly when fewer than 20
\* mid-prices, the current one included, are recorded since construction or
\* the last reset; from the 20th snapshot on the volatility is never None.
C21_VolatilityNoneIffBelowWindow ==
    (Analyzed /\ ret.value # None) =>
        ((Metrics.volatility = None)
            <=> (Len(analyzer._price_history) < VolatilityWindow))

----------------------------------------------------------------------------
(* Properties of the three buffers *)

\* new is old after value was pushed: the values of old in their order, less
\* the oldest when old was at capacity, and then value
Pushed(old, new, value, capacity) ==
    /\ Len(new) = IF Len(old) < capacity THEN Len(old) + 1 ELSE capacity
    /\ new[Len(new)] = value
    /\ \A i \in 1..(Len(new) - 1) : new[i] = old[Len(old) - (Len(new) - 1) + i]

\* the imbalance of the bucket the trade completes
CompletedImbalance(self, trade_volume, is_buy) ==
    LET buys == FAdd(self._current_bucket_buys, IF is_buy THEN trade_volume ELSE 0)
        sells == FAdd(self._current_bucket_sells, IF is_buy THEN 0 ELSE trade_volume)
    IN  Rat(Abs(buys - sells), FAdd(buys, sells))

BuffersWithin(self) ==
    /\ Len(self._ofi_history) <= ofi_window
    /\ Len(self._price_history) <= price_history_size
    /\ Len(self._bucket_imbalances) <= BucketImbalancesMaxlen

BuffersStep ==
    /\ BuffersWithin(analyzer')
    /\ (ret'.op = "analyze" /\ ret'.raised = "") =>
          /\ Pushed(analyzer._ofi_history, analyzer'._ofi_history,
                    Abs(RawOfi(analyzer, ret'.arg[1].bids[1], ret'.arg[1].asks[1])),
                    ofi_window)
          /\ Pushed(analyzer._price_history, analyzer'._price_history,
                    mid_price(ret'.arg[1])[1], price_history_size)
          /\ analyzer'._bucket_imbalances = analyzer._bucket_imbalances
    /\ (ret'.op = "analyze" /\ ret'.raised # "") =>
          /\ analyzer'._ofi_history = analyzer._ofi_history
          /\ analyzer'._price_history = analyzer._price_history
          /\ analyzer'._bucket_imbalances = analyzer._bucket_imbalances
    /\ ret'.op = "update_vpin" =>
          /\ analyzer'._ofi_history = analyzer._ofi_history
          /\ analyzer'._price_history = analyzer._price_history
          /\ IF FAdd(analyzer._current_bucket_volume, ret'.arg[1].trade_volume)
                    >= analyzer.vpin_bucket_size
             THEN Pushed(analyzer._bucket_imbalances, analyzer'._bucket_imbalances,
                         CompletedImbalance(analyzer, ret'.arg[1].trade_volume,
                                            ret'.arg[1].is_buy),
                         BucketImbalancesMaxlen)
             ELSE analyzer'._bucket_imbalances = analyzer._bucket_imbalances
    /\ ret'.op = "reset" =>
          /\ analyzer'._ofi_history = <<>>
          /\ analyzer'._price_history = <<>>
          /\ analyzer'._bucket_imbalances = <<>>

\* C22: after any sequence of analyze, update_vpin and reset calls the OFI
\* history holds at most ofi_window values, the price history at most
\* price_history_size and the bucket imbalances at most 50, and every call
\* leaves in each buffer the most recently pushed values in arrival order:
\* a push at capacity evicts the oldest value only.
C22_BuffersKeepNewest == [][BuffersStep]_vars

\* a trade completed a bucket on a full buffer of imbalances: the oldest
\* imbalance left, the second oldest is now the oldest, the new one is last
C22_Witness ==
    /\ VpinCalled /\ CompletesBucket
    /\ Len(VpinBefore._bucket_imbalances) = BucketImbalancesMaxlen
    /\ VpinBefore._bucket_imbalances[1] # VpinBefore._bucket_imbalances[2]
    /\ Recorded[1] = VpinBefore._bucket_imbalances[2]
    /\ Len(Recorded) = BucketImbalancesMaxlen
    /\ Len(analyzer._price_history) = price_history_size

----------------------------------------------------------------------------
(* Properties of the current bucket *)

\* the accumulators of the current bucket are all 0
BucketEmpty(self) ==
    /\ self._current_bucket_volume = 0
    /\ self._current_bucket_buys = 0
    /\ self._current_bucket_sells = 0

\* what a call does to the bucket, whether or not it completes it
BucketFilled ==
    /\ analyzer._current_bucket_volume < analyzer.vpin_bucket_size
    /\ IF CompletesBucket
       THEN /\ Pushed(VpinBefore._bucket_imbalances, Recorded,
                      CompletedImbalance(VpinBefore, ret.arg[1].trade_volume,
                                         ret.arg[1].is_buy),
                      BucketImbalancesMaxlen)
            /\ BucketEmpty(analyzer)
       ELSE Recorded = VpinBefore._bucket_imbalances

\* C23 as stated: after every update_vpin call with a non-negative volume
\* the volume of the current bucket is below vpin_bucket_size and equals
\* buys + sells; a call that brings the bucket to vpin_bucket_size records
\* exactly one imbalance |buys - sells| / (buys + sells) and sets the three
\* accumulators to 0.
C23_Original ==
    VpinCalled =>
        /\ BucketFilled
        /\ analyzer._current_bucket_volume
              = FAdd(analyzer._current_bucket_buys, analyzer._current_bucket_sells)

\* the sum of the bucket's buys and sells is small enough for every sum of
\* trades of the bucket to be a float
SumsExact(self) ==
    self._current_bucket_buys + self._current_bucket_sells <= 2 ^ MantissaBits

\* C23: as stated, but the volume of the current bucket equals buys + sells
\* only as long as no addition into the three accumulators was rounded.
C23_BucketBelowSize ==
    VpinCalled =>
        /\ BucketFilled
        /\ SumsExact(analyzer) =>
              analyzer._current_bucket_volume
                = FAdd(analyzer._current_bucket_buys, analyzer._current_bucket_sells)

\* a trade brought the bucket above its size with buys and sells in it: one
\* imbalance strictly between 0 and 1 is recorded and the excess is gone
C23_Witness ==
    /\ VpinCalled /\ CompletesBucket
    /\ FAdd(VpinBefore._current_bucket_volume, ret.arg[1].trade_volume)
          > VpinBefore.vpin_bucket_size
    /\ Len(Recorded) = 1
    /\ RLt(RInt(0), Recorded[1]) /\ RLt(Recorded[1], RInt(1))
    /\ BucketEmpty(analyzer)

----------------------------------------------------------------------------
(* The two engines of the analyzer *)

\* what analyze reads and writes, and what update_vpin reads and writes
OfiState(self) ==
    <<self._prev_best_bid, self._prev_best_ask, self._prev_bid_qty,
      self._prev_ask_qty, self._ofi_history, self._price_history>>
VpinState(self) ==
    <<self._current_bucket_volume, self._current_bucket_buys,
      self._current_bucket_sells, self._bucket_imbalances>>

\* analyze(book) and update_vpin(trade_volume, is_buy) in either order
\* return the same and leave the same analyzer
Commute(self, book, trade_volume, is_buy) ==
    \E a1 \in {MicrostructureAnalyzer_analyze(self, book)},
       u2 \in {update_vpin(self, trade_volume, is_buy)} :
        \E u1 \in {update_vpin(a1.self, trade_volume, is_buy)},
           a2 \in {MicrostructureAnalyzer_analyze(u2.self, book)} :
            /\ a1.raised = a2.raised /\ a1.value = a2.value
            /\ u1.raised = u2.raised /\ u1.value = u2.value
            /\ u1.self = a2.self

CommuteHere ==
    \A book \in VolBooks \cup EmptySideBooks, v \in TradeVolumes, b \in BOOLEAN :
        Commute(analyzer, book, v, b)

EnginesStep ==
    /\ ret'.op = "update_vpin" => OfiState(analyzer') = OfiState(analyzer)
    /\ ret'.op = "analyze" => VpinState(analyzer') = VpinState(analyzer)

\* C24: update_vpin leaves the previous quote, the OFI history and the
\* price history unchanged, analyze leaves the accumulators of the bucket
\* and the bucket imbalances unchanged, and an analyze call and an
\* update_vpin call return the same in either order.
C24_EnginesIndependent == []CommuteHere /\ [][EnginesStep]_vars

\* a snapshot analysed between two trades of one bucket, on an analyzer
\* that reports a VPIN: the quote moved and the bucket is half full
C24_Witness ==
    /\ Analyzed /\ ret.value # None
    /\ Metrics.ofi # round(RInt(0), 4)
    /\ trades > 0
    /\ analyzer._current_bucket_volume > 0
    /\ Len(analyzer._bucket_imbalances) >= VpinMinBuckets

----------------------------------------------------------------------------
(* Properties of the detectors of one snapshot *)

\* the levels 1..depth of a side whose volume exceeds factor x the
\* avg_l1_volume of the detector after the call
LargeLevels(levels, factor, depth) ==
    {i \in 1..IMin(depth, Len(levels)) :
        RLt(RMul(detector._avg_l1_volume, RInt(factor)), RInt(levels[i].volume))}
Lowest(levels) == CHOOSE i \in levels : \A j \in levels : i <= j

SpoofingBids == LargeLevels(DetBookIn.bids, spoofing_volume_threshold, 5)
SpoofingAsks == LargeLevels(DetBookIn.asks, spoofing_volume_threshold, 5)

\* C25: analyze returns at most one SPOOFING anomaly; it describes the
\* first level above avg_l1_volume * spoofing_volume_threshold among the
\* bid levels 1..5 and then the ask levels 1..5, so an ask level is reported
\* only when no top-5 bid level is above, and deeper levels never are.
C25_SpoofingFirstLevel ==
    DetCalled =>
        /\ Cardinality(OfType("SPOOFING")) <= 1
        /\ \A i \in OfType("SPOOFING") :
              IF SpoofingBids # {}
              THEN /\ State.anomalies[i].side = "BID"
                   /\ State.anomalies[i].level = Lowest(SpoofingBids)
              ELSE /\ SpoofingAsks # {}
                   /\ State.anomalies[i].side = "ASK"
                   /\ State.anomalies[i].level = Lowest(SpoofingAsks)
        /\ (DetAnalyzed /\ SpoofingBids \cup SpoofingAsks # {}) => OfType("SPOOFING") # {}

\* the second bid level is reported although the best ask is above as well
C25_Witness ==
    /\ DetAnalyzed
    /\ SpoofingBids = {2}
    /\ 1 \in SpoofingAsks
    /\ \E i \in OfType("SPOOFING") :
          State.anomalies[i].side = "BID" /\ State.anomalies[i].level = 2

\* the numbers of top-5 levels above 2 x avg_l1_volume
LayeredBids == Cardinality(LargeLevels(DetBookIn.bids, 2, 5))
LayeredAsks == Cardinality(LargeLevels(DetBookIn.asks, 2, 5))
\* a side with count large levels is layered against one with other
Layered(count, other) == count >= 3 /\ count > other + 2

\* C26: on a book with both sides, analyze returns a LAYERING anomaly if and
\* only if one side has at least 3 top-5 levels above 2 * avg_l1_volume and
\* more than the other side's count plus 2; the anomaly names that side, it
\* is CRITICAL when the count is 4 or 5 and HIGH when it is 3, and no call
\* returns two LAYERING anomalies.
C26_Layering ==
    /\ DetCalled => Cardinality(OfType("LAYERING")) <= 1
    /\ DetAnalyzed =>
          /\ (OfType("LAYERING") # {})
                <=> (Layered(LayeredBids, LayeredAsks) \/ Layered(LayeredAsks, LayeredBids))
          /\ \A i \in OfType("LAYERING") :
                \E side \in { <<"BID", LayeredBids, LayeredAsks>>,
                               <<"ASK", LayeredAsks, LayeredBids>> } :
                    /\ State.anomalies[i].side = side[1]
                    /\ Layered(side[2], side[3])
                    /\ side[2] \in {4, 5} => State.anomalies[i].severity = "CRITICAL"
                    /\ side[2] = 3 => State.anomalies[i].severity = "HIGH"

\* four large bid levels against none on the ask side: CRITICAL, BID
C26_Witness ==
    /\ DetAnalyzed
    /\ LayeredBids = 4 /\ LayeredAsks = 0
    /\ \E i \in OfType("LAYERING") :
          State.anomalies[i].side = "BID" /\ State.anomalies[i].severity = "CRITICAL"

\* the number of members of a set of naturals up to x
RankIn(set, x) == Cardinality({y \in set : y <= x})

\* C27: on a book with both sides, analyze returns the first five levels
\* with volume below liquidity_gap_threshold in scan order, bid levels 1..10
\* by increasing depth and then ask levels 1..10, as LIQUIDITY_GAP anomalies,
\* and all of them when there are fewer; an ask-side gap is returned only
\* when fewer than 5 bid-side gaps exist, and no call returns more than 5.
C27_FirstFiveGaps ==
    /\ DetCalled => Cardinality(OfType("LIQUIDITY_GAP")) <= 5
    /\ DetAnalyzed =>
          /\ Cardinality(OfType("LIQUIDITY_GAP"))
                = IMin(5, Cardinality(GapLevels(DetBookIn.bids))
                          + Cardinality(GapLevels(DetBookIn.asks)))
          /\ \A i \in OfType("LIQUIDITY_GAP") :
                \E k \in {RankIn(OfType("LIQUIDITY_GAP"), i)},
                   bid_gaps \in {Cardinality(GapLevels(DetBookIn.bids))} :
                    IF k <= bid_gaps
                    THEN /\ State.anomalies[i].side = "bid"
                         /\ State.anomalies[i].level \in GapLevels(DetBookIn.bids)
                         /\ RankIn(GapLevels(DetBookIn.bids), State.anomalies[i].level) = k
                    ELSE /\ State.anomalies[i].side = "ask"
                         /\ State.anomalies[i].level \in GapLevels(DetBookIn.asks)
                         /\ RankIn(GapLevels(DetBookIn.asks), State.anomalies[i].level)
                               = k - bid_gaps
          /\ OfTypeSide("LIQUIDITY_GAP", "ask") # {}
                => Cardinality(GapLevels(DetBookIn.bids)) < 5

\* six thin bid levels and a thin ask level: the first five bid levels are
\* returned and the ask level is not
C27_Witness ==
    /\ DetAnalyzed
    /\ Cardinality(GapLevels(DetBookIn.bids)) = 6
    /\ GapLevels(DetBookIn.asks) # {}
    /\ Cardinality(OfTypeSide("LIQUIDITY_GAP", "bid")) = 5
    /\ OfTypeSide("LIQUIDITY_GAP", "ask") = {}
    /\ \A i \in OfType("LIQUIDITY_GAP") : State.anomalies[i].level <= 5

\* the first complete snapshot since construction or reset, and its spread
\* is positive
FirstWithSpread ==
    /\ DetAnalyzed
    /\ ~WarmedUp
    /\ DetBefore._avg_spread = RInt(0) /\ DetBefore._avg_spread_sq = RInt(0)
    /\ spread(DetBookIn)[1] > 0

\* C28: the first analyze call of a new or reset detector with default
\* parameters on a book with positive spread returns a SPREAD_SHOCK anomaly
\* of severity MEDIUM, so its anomaly list is not empty.
C28_FirstCallShock ==
    FirstWithSpread =>
        /\ Cardinality(OfType("SPREAD_SHOCK")) = 1
        /\ \A i \in OfType("SPREAD_SHOCK") : State.anomalies[i].severity = "MEDIUM"
        /\ State.anomalies # <<>>

\* the first snapshot after a reset is a quiet book: the spread shock is
\* its only anomaly
C28_Witness ==
    /\ FirstWithSpread
    /\ det_dirty_reset
    /\ Len(State.anomalies) = 1
    /\ State.anomalies[1].type = "SPREAD_SHOCK"
    /\ State.anomalies[1].severity = "MEDIUM"

Critical == {i \in 1..Len(State.anomalies) : State.anomalies[i].severity = "CRITICAL"}

\* C29: in every returned MarketState at most one anomaly is CRITICAL and it
\* is a LAYERING anomaly; a state with a CRITICAL anomaly has the regime
\* MANIPULATION_SUSPECTED.
C29_CriticalIsLayering ==
    DetCalled =>
        /\ Cardinality(Critical) <= 1
        /\ \A i \in Critical : State.anomalies[i].type = "LAYERING"
        /\ Critical # {} => State.regime = "MANIPULATION_SUSPECTED"

\* a CRITICAL anomaly next to anomalies of other severities
C29_Witness ==
    /\ DetCalled
    /\ Cardinality(Critical) = 1
    /\ CountSeverity(State.anomalies, "HIGH") + CountSeverity(State.anomalies, "MEDIUM") > 0
    /\ State.regime = "MANIPULATION_SUSPECTED"

----------------------------------------------------------------------------
(* Properties of the normalised OFI *)

\* the magnitudes the ofi_window - 1 calls before this one recorded
Preceding(history) ==
    SubSeq(history, IMax(1, Len(history) - (ofi_window - 1) + 1), Len(history))

\* the raw OFI of the snapshot is not 0 and its magnitude is at least every
\* magnitude of the preceding ofi_window - 1 calls
Dominant(self, book) ==
    /\ RawOfi(self, book.bids[1], book.asks[1]) # 0
    /\ \A i \in DOMAIN Preceding(self._ofi_history) :
          Preceding(self._ofi_history)[i] <= Abs(RawOfi(self, book.bids[1], book.asks[1]))

OfiStep ==
    (ret'.op = "analyze" /\ ret'.raised = "") =>
        /\ Dominant(analyzer, ret'.arg[1]) =>
              ret'.value[1].ofi
                = round(RInt(IF RawOfi(analyzer, ret'.arg[1].bids[1], ret'.arg[1].asks[1]) > 0
                             THEN 1 ELSE -1), 4)
        /\ Len(analyzer._ofi_history) = 1 =>
              ret'.value[1].ofi \in {round(RInt(-1), 4), round(RInt(0), 4), round(RInt(1), 4)}

\* C30: analyze returns ofi +1 or -1, with the sign of the raw OFI, whenever
\* the raw OFI of the call is not zero and its magnitude is at least every
\* magnitude recorded in the preceding ofi_window - 1 calls; the second
\* analyze call after construction or reset returns -1, 0 or 1.
C30_DominantOfiIsUnit == [][OfiStep]_vars

\* a flow larger than the non-zero flow of the call before it is reported
\* as -1
C30_Witness ==
    /\ Analyzed /\ ret.value # None
    /\ Metrics.ofi = round(RInt(-1), 4)
    /\ Len(analyzer._ofi_history) >= 2
    /\ analyzer._ofi_history[Len(analyzer._ofi_history) - 1] > 0
    /\ analyzer._ofi_history[Len(analyzer._ofi_history) - 1]
          < analyzer._ofi_history[Len(analyzer._ofi_history)]

====
